---------------------------- MODULE Spec2Model ----------------------------
(***************************************************************************)
(* Functional enrichment engine of functional_enrichment_app_rnaseq:       *)
(*   analysis/kegg_analysis.py  build_kegg_id_mapping, run_kegg_ora        *)
(*   analysis/cog_analysis.py   run_cog_enrichment                         *)
(*                                                                         *)
(* Strings are sequences of one-character strings, so that lower(),        *)
(* strip(), split(';') and the substring test are computed, not assumed.   *)
(* A Python dict is a function (its key set is DOMAIN); an insertion-      *)
(* ordered dict that the code iterates is a record [keys, val].  Real      *)
(* numbers are exact rationals kept as integer numerators over a stated    *)
(* denominator.                                                            *)
(***************************************************************************)
EXTENDS Integers, Sequences, FiniteSets, TLC

VARIABLES
    \* ---- build_kegg_id_mapping -------------------------------------------
    input_gene_ids,  \* the list of input ids, in order
    kegg_genes,      \* the reference gene list, an ordered dict: a sequence of [id, desc]
    gene_name_map,   \* dict input id -> alternate name
    product_map,     \* dict input id -> product description
    kegg_ids_lower,      \* local: lower-cased reference id -> reference id
    kegg_symbol_to_id,   \* local: lower-cased symbol -> reference id
    kegg_product_to_id,  \* local: lower-cased product text -> reference id (iterated)
    mapping,         \* the dict being built by the call in progress
    pos,             \* index of the input id the for loop is at (1-based)
    pc,              \* "build" | "loop" | "done" | "idle"
    run,             \* 1 for the first call on these inputs, 2 for the repeat
    first_mapping,   \* what the first call returned
    hashseed,        \* the interpreter's string hash seed of the running process
    \* ---- run_kegg_ora / run_cog_enrichment -------------------------------
    de_gene_ids,     \* foreground ids (a list; the code only takes set() of it)
    all_gene_ids,    \* background ids
    membership,      \* gene -> list of category codes (gene_pathway_links / cog_mapping)
    id_mapping,      \* the id_mapping argument of run_kegg_ora
    min_size,        \* min_size (KEGG) / min_count (COG)
    max_size,        \* max_size (KEGG only)
    ora_call,        \* "none" | "kegg" | "cog": which engine produced ora_result
    ora_fg,          \* the foreground set the engine tested (de_mapped / de_set)
    ora_bg,          \* the background set the engine tested (all_mapped / all_set)
    ora_result,      \* the records returned, in output order
    pathway_gene_sets,   \* local of run_kegg_ora: pathway -> set of background genes
    \* ---- run_kegg_gsea (it shares membership, id_mapping, min_size, max_size) ----
    gene_ranking,    \* the ranking passed in: a sequence of [gene, score], descending
    pathways,        \* dict pathway id -> pathway name
    ranking_mapped,  \* local: the ranking after translation and de-duplication
    gsea_gene_sets,  \* local: pathway name -> gene set, after the size filter
    gsea_call,       \* "none" | "empty" | "prerank" | "warning": how the call ended
    gsea_result,     \* the records returned (a set: their order is by permutation p-value)
    \* ---- _kegg_get ---------------------------------------------------------
    retries_arg,     \* the max_retries argument as passed: {n}, or {} when left out
    max_retries,     \* the max_retries parameter
    attempt,         \* request attempts made so far
    http_log,        \* what each attempt met, in order
    slept,           \* time slept so far, in hundredths of a second
    http_pc,         \* "idle" | "loop" | "done"
    http_result,     \* the text returned
    \* ---- the cached fetchers (st.cache_data) ---------------------------------
    cache,           \* the entries st.cache_data holds, keyed by CacheKey
    now,             \* the time, in hundredths of a second
    fetch_pc,        \* "idle" | "computing": a fetcher's body is running
    fetch_call,      \* the fetcher and organism code of the call in progress
    last_fetch,      \* what the latest finished call met and returned
    calls,           \* fetcher calls finished so far
    \* ---- concurrent sessions ------------------------------------------------
    threads,         \* per script thread: where it is in its fetch, and its timer
    since_request,   \* time since the latest request was issued: {} before the first
    last_gap,        \* time between the two latest requests: {} before the second
    \* ---- app.py: Run Full Analysis -------------------------------------------
    session_state,   \* st.session_state: per key, the run that wrote its value
    app_pc,          \* the step of the run block the script is at, "idle" between runs
    run_no,          \* runs started so far in this session
    kegg_error       \* the run in progress went through the KEGG except clause

resolver_inputs == <<input_gene_ids, kegg_genes, gene_name_map, product_map>>
resolver_locals == <<kegg_ids_lower, kegg_symbol_to_id, kegg_product_to_id>>
resolver_vars == <<input_gene_ids, kegg_genes, gene_name_map, product_map,
                   kegg_ids_lower, kegg_symbol_to_id, kegg_product_to_id,
                   mapping, pos, pc, run, first_mapping, hashseed>>
ora_vars == <<de_gene_ids, all_gene_ids, membership, id_mapping, min_size, max_size,
              ora_call, ora_fg, ora_bg, ora_result, pathway_gene_sets>>
gsea_vars == <<gene_ranking, pathways, ranking_mapped, gsea_gene_sets, gsea_call, gsea_result>>
http_vars == <<retries_arg, max_retries, attempt, http_log, slept, http_pc, http_result>>
fetch_vars == <<cache, now, fetch_pc, fetch_call, last_fetch, calls>>
thread_vars == <<threads, since_request, last_gap>>
app_vars == <<session_state, app_pc, run_no, kegg_error>>
vars == <<input_gene_ids, kegg_genes, gene_name_map, product_map,
          kegg_ids_lower, kegg_symbol_to_id, kegg_product_to_id, mapping, pos, pc, run, first_mapping, hashseed,
          de_gene_ids, all_gene_ids, membership, id_mapping, min_size, max_size,
          ora_call, ora_fg, ora_bg, ora_result, pathway_gene_sets,
          gene_ranking, pathways, ranking_mapped, gsea_gene_sets, gsea_call, gsea_result,
          retries_arg, max_retries, attempt, http_log, slept, http_pc, http_result,
          cache, now, fetch_pc, fetch_call, last_fetch, calls,
          threads, since_request, last_gap,
          session_state, app_pc, run_no, kegg_error>>

(***************************************************************************)
(* Bounds of the model.                                                    *)
(***************************************************************************)
MaxInputs == 2      \* input ids per call
MaxRef == 2         \* entries of the reference gene list

(***************************************************************************)
(* Python str operations.                                                  *)
(***************************************************************************)
ToLower ==
    [A |-> "a", B |-> "b", H |-> "h", I |-> "i", K |-> "k", R |-> "r", T |-> "t"]

LowerChar(c) == IF c \in DOMAIN ToLower THEN ToLower[c] ELSE c

\* str.lower()
Lower(s) == [i \in 1..Len(s) |-> LowerChar(s[i])]

\* str.strip(): drop leading and trailing whitespace
RECURSIVE LStrip(_)
LStrip(s) == IF s # <<>> /\ Head(s) = " " THEN LStrip(Tail(s)) ELSE s

RECURSIVE RStrip(_)
RStrip(s) ==
    IF s # <<>> /\ s[Len(s)] = " " THEN RStrip(SubSeq(s, 1, Len(s) - 1)) ELSE s

Strip(s) == RStrip(LStrip(s))

\* s.find(c) + 1: the first position of character c in s, 0 when absent
RECURSIVE FindFrom(_, _, _)
FindFrom(s, c, i) ==
    IF i > Len(s) THEN 0 ELSE IF s[i] = c THEN i ELSE FindFrom(s, c, i + 1)

Find(s, c) == FindFrom(s, c, 1)

\* `sub in s` for strings
Contains(sub, s) ==
    \E i \in 0..(Len(s) - Len(sub)) : SubSeq(s, i + 1, i + Len(sub)) = sub

\* desc.split(';')[0]
SplitHead(desc) == SubSeq(desc, 1, Find(desc, ";") - 1)

\* desc.split(';', 1)[1]
SplitRest(desc) == SubSeq(desc, Find(desc, ";") + 1, Len(desc))

(***************************************************************************)
(* Python dict operations.                                                 *)
(***************************************************************************)
EmptyDict == [k \in {} |-> <<>>]

\* d[k] = v
Put(d, k, v) == [x \in (DOMAIN d) \cup {k} |-> IF x = k THEN v ELSE d[x]]

EmptyOrdered == [keys |-> <<>>, val |-> EmptyDict]

\* d[k] = v on a dict whose iteration order is read: a new key goes last, an
\* existing key keeps its place and takes the new value
PutOrdered(d, k, v) ==
    [keys |-> IF k \in DOMAIN d.val THEN d.keys ELSE Append(d.keys, k),
     val |-> Put(d.val, k, v)]

(***************************************************************************)
(* build_kegg_id_mapping: the lookups built before the loop.               *)
(***************************************************************************)
MIN_KEGG_PRODUCT_LEN == 5       \* len(product_part) > 5
MIN_PRODUCT_LEN == 10           \* len(product_lower) > 10
MIN_SUBSTRING_LEN == 15         \* len(product_lower) > 15

\* None / NaN: no string of characters equals it
NoneVal == <<"None">>

\* kegg_ids = list(kegg_genes.keys())
KeggIdSet(genes) == {genes[i].id : i \in 1..Len(genes)}

\* kegg_ids_lower = {k.lower(): k for k in kegg_ids}
RECURSIVE KeggIdsLowerUpTo(_, _)
KeggIdsLowerUpTo(genes, n) ==
    IF n = 0 THEN EmptyDict
    ELSE Put(KeggIdsLowerUpTo(genes, n - 1), Lower(genes[n].id), genes[n].id)

\* fault: the reference ids are walked as a set, whose order follows the
\* process's hash seed, and the first id seen keeps its place in the lookup
RECURSIVE KeggIdsLowerDownTo(_, _)
KeggIdsLowerDownTo(genes, n) ==
    IF n > Len(genes) THEN EmptyDict
    ELSE Put(KeggIdsLowerDownTo(genes, n + 1), Lower(genes[n].id), genes[n].id)

KeggIdsLower_HashOrder(genes) ==
    IF hashseed = 0 THEN KeggIdsLowerUpTo(genes, Len(genes)) ELSE KeggIdsLowerDownTo(genes, 1)

KeggIdsLower(genes) == KeggIdsLowerUpTo(genes, Len(genes))

\* the loop over kegg_genes.items(), symbol half:
\*   if ';' in desc: kegg_symbol_to_id[desc.split(';')[0].strip().lower()] = kid
RECURSIVE KeggSymbolToIdUpTo(_, _)
KeggSymbolToIdUpTo(genes, n) ==
    IF n = 0 THEN EmptyDict
    ELSE LET d == KeggSymbolToIdUpTo(genes, n - 1)
             desc == genes[n].desc
         IN  IF Find(desc, ";") # 0
             THEN Put(d, Lower(Strip(SplitHead(desc))), genes[n].id)
             ELSE d

\* fault: a symbol already in the lookup is not overwritten
RECURSIVE KeggSymbolToIdFirstWinsUpTo(_, _)
KeggSymbolToIdFirstWinsUpTo(genes, n) ==
    IF n = 0 THEN EmptyDict
    ELSE LET d == KeggSymbolToIdFirstWinsUpTo(genes, n - 1)
             desc == genes[n].desc
             sym == Lower(Strip(SplitHead(desc)))
         IN  IF Find(desc, ";") # 0 /\ sym \notin DOMAIN d
             THEN Put(d, sym, genes[n].id)
             ELSE d

KeggSymbolToId_FirstWins(genes) == KeggSymbolToIdFirstWinsUpTo(genes, Len(genes))

KeggSymbolToId(genes) == KeggSymbolToIdUpTo(genes, Len(genes))

\* the product text the loop stores for one description
ProductPart(desc) ==
    IF Find(desc, ";") # 0 THEN Lower(Strip(SplitRest(desc))) ELSE Lower(Strip(desc))

\* the loop over kegg_genes.items(), product half; the dict is iterated by
\* strategy 5, so its key order is kept
RECURSIVE KeggProductToIdUpTo(_, _)
KeggProductToIdUpTo(genes, n) ==
    IF n = 0 THEN EmptyOrdered
    ELSE LET d == KeggProductToIdUpTo(genes, n - 1)
             p == ProductPart(genes[n].desc)
         IN  IF Len(p) > MIN_KEGG_PRODUCT_LEN THEN PutOrdered(d, p, genes[n].id) ELSE d

KeggProductToId(genes) == KeggProductToIdUpTo(genes, Len(genes))

(***************************************************************************)
(* build_kegg_id_mapping: the strategies.  Each returns <<kid>> on a match *)
(* and <<>> otherwise.                                                     *)
(***************************************************************************)
\* dict.get(k): <<v>> or <<>> for None
Get(d, k) == IF k \in DOMAIN d THEN <<d[k]>> ELSE <<>>

\* Strategy 1: if gid_str in kegg_genes
Strategy1(g, genes) ==
    IF g \in KeggIdSet(genes) THEN <<g>> ELSE <<>>

\* fault: the id is looked up without lower-casing it
Strategy2_NotLowered(g, ids_lower) == Get(ids_lower, g)

\* Strategy 2: if gid_str.lower() in kegg_ids_lower
Strategy2(g, ids_lower) == Get(ids_lower, Lower(g))

\* Strategy 3: gene_name = gene_name_map.get(gid_str);
\*   if gene_name and str(gene_name).lower() in kegg_symbol_to_id
Strategy3(g, symbol_to_id, names) ==
    LET gene_name == Get(names, g)
    IN  IF gene_name # <<>> /\ gene_name[1] # <<>>
        THEN Get(symbol_to_id, Lower(gene_name[1]))
        ELSE <<>>

\* fault: the matched symbol is stored instead of the id it belongs to
Strategy4_StoresSymbol(g, symbol_to_id) ==
    IF Lower(g) \in DOMAIN symbol_to_id THEN <<Lower(g)>> ELSE <<>>

\* Strategy 4: if gid_str.lower() in kegg_symbol_to_id
Strategy4(g, symbol_to_id) == Get(symbol_to_id, Lower(g))

\* a scan that takes a containing reference text whatever the length of the
\* input text
RECURSIVE ProductScan_AnyLength(_, _, _)
ProductScan_AnyLength(product_lower, d, i) ==
    IF i > Len(d.keys) THEN <<>>
    ELSE LET kegg_prod == d.keys[i]
         IN  IF \/ product_lower = kegg_prod
                \/ Contains(product_lower, kegg_prod)
             THEN <<d.val[kegg_prod]>>
             ELSE ProductScan_AnyLength(product_lower, d, i + 1)

\* the for loop of strategy 5 over kegg_product_to_id.items(), from item i
RECURSIVE ProductScan(_, _, _)
ProductScan(product_lower, d, i) ==
    IF i > Len(d.keys) THEN <<>>
    ELSE LET kegg_prod == d.keys[i]
         IN  IF \/ product_lower = kegg_prod
                \/ /\ Len(product_lower) > MIN_SUBSTRING_LEN
                   /\ Contains(product_lower, kegg_prod)
             THEN <<d.val[kegg_prod]>>
             ELSE ProductScan(product_lower, d, i + 1)

\* Strategy 5: product = product_map.get(gid_str); if product: ...
Strategy5(g, product_to_id, products) ==
    LET product == Get(products, g)
    IN  IF product # <<>> /\ product[1] # <<>>
        THEN LET product_lower == Lower(Strip(product[1]))
             IN  IF Len(product_lower) > MIN_PRODUCT_LEN
                 THEN ProductScan(product_lower, product_to_id, 1)
                 ELSE <<>>
        ELSE <<>>

\* fault: the id is tried as a symbol before it is looked up as an id
Resolve_SymbolFirst(g, genes, ids_lower, symbol_to_id, product_to_id, names, products) ==
    LET s1 == Strategy1(g, genes)
        s2 == Strategy2(g, ids_lower)
        s3 == Strategy3(g, symbol_to_id, names)
        s4 == Strategy4(g, symbol_to_id)
        s5 == Strategy5(g, product_to_id, products)
    IN  IF s4 # <<>> THEN [strategy |-> 4, kid |-> s4]
        ELSE IF s1 # <<>> THEN [strategy |-> 1, kid |-> s1]
        ELSE IF s2 # <<>> THEN [strategy |-> 2, kid |-> s2]
        ELSE IF s3 # <<>> THEN [strategy |-> 3, kid |-> s3]
        ELSE IF s5 # <<>> THEN [strategy |-> 5, kid |-> s5]
        ELSE [strategy |-> 0, kid |-> <<>>]

\* fault: an id that nothing matches is given the first reference id
Resolve_Default(g, genes, ids_lower, symbol_to_id, product_to_id, names, products) ==
    LET s1 == Strategy1(g, genes)
        s2 == Strategy2(g, ids_lower)
        s3 == Strategy3(g, symbol_to_id, names)
        s4 == Strategy4(g, symbol_to_id)
        s5 == Strategy5(g, product_to_id, products)
    IN  IF s1 # <<>> THEN [strategy |-> 1, kid |-> s1]
        ELSE IF s2 # <<>> THEN [strategy |-> 2, kid |-> s2]
        ELSE IF s3 # <<>> THEN [strategy |-> 3, kid |-> s3]
        ELSE IF s4 # <<>> THEN [strategy |-> 4, kid |-> s4]
        ELSE IF s5 # <<>> THEN [strategy |-> 5, kid |-> s5]
        ELSE IF genes # <<>> THEN [strategy |-> 5, kid |-> <<genes[1].id>>]
        ELSE [strategy |-> 0, kid |-> <<>>]

\* one iteration of the loop body for gid_str: the number of the strategy whose
\* branch is taken (0: none), and the value it stores
Resolve(g, genes, ids_lower, symbol_to_id, product_to_id, names, products) ==
    LET s1 == Strategy1(g, genes)
        s2 == Strategy2(g, ids_lower)
        s3 == Strategy3(g, symbol_to_id, names)
        s4 == Strategy4(g, symbol_to_id)
        s5 == Strategy5(g, product_to_id, products)
    IN  IF s1 # <<>> THEN [strategy |-> 1, kid |-> s1]
        ELSE IF s2 # <<>> THEN [strategy |-> 2, kid |-> s2]
        ELSE IF s3 # <<>> THEN [strategy |-> 3, kid |-> s3]
        ELSE IF s4 # <<>> THEN [strategy |-> 4, kid |-> s4]
        ELSE IF s5 # <<>> THEN [strategy |-> 5, kid |-> s5]
        ELSE [strategy |-> 0, kid |-> <<>>]

(***************************************************************************)
(* The inputs the model draws from.  Reference entries have the KEGG list  *)
(* forms "<symbol>; <product>" and "<product>"; input rows carry an id, an *)
(* alternate name and a product text, either of which may be missing.      *)
(***************************************************************************)
id_ab ==
    <<"a", "b">>
id_AB ==
    <<"A", "B">>
id_Ab ==
    <<"A", "b">>
id_k2 ==
    <<"k", "2">>
id_k2_padded ==
    <<" ", "k", "2">>
id_thra ==
    <<"t", "h", "r", "a">>
id_x9 ==
    <<"x", "9">>
id_y9 ==
    <<"y", "9">>
name_THRA ==
    <<"T", "H", "R", "A">>
name_thra ==
    <<"t", "h", "r", "a">>
prod_AspartateKinase_padded ==
    <<" ", "A", "s", "p", "a", "r", "t", "a", "t", "e", " ", "K", "i", "n", "a", "s", "e", " ">>
prod_Aspartokinase ==
    <<"A", "s", "p", "a", "r", "t", "o", "k", "i", "n", "a", "s", "e">>
prod_kinase ==
    <<"k", "i", "n", "a", "s", "e">>
desc_thrA_ak ==
    <<"t", "h", "r", "A", ";", " ", "a", "s", "p", "a", "r", "t", "a", "t", "e", " ", "k", "i", "n", "a", "s", "e">>
desc_ThrA_aok ==
    <<"T", "h", "r", "A", ";", "a", "s", "p", "a", "r", "t", "o", "k", "i", "n", "a", "s", "e">>
desc_akI ==
    <<"a", "s", "p", "a", "r", "t", "a", "t", "e", " ", "k", "i", "n", "a", "s", "e", " ", "I">>
desc_AB_ak ==
    <<"A", "B", ";", " ", "a", "s", "p", "a", "r", "t", "a", "t", "e", " ", "k", "i", "n", "a", "s", "e">>

RefIds == {id_AB, id_Ab, id_k2}

RefDescs == {desc_thrA_ak, desc_ThrA_aok, desc_akI, desc_AB_ak}

\* every reference list of at most MaxRef entries with distinct ids
RefLists ==
    UNION {{g \in [1..n -> [id : RefIds, desc : RefDescs]] :
                \A i, j \in 1..n : i # j => g[i].id # g[j].id} : n \in 0..MaxRef}

RowPool ==
    << [id |-> id_ab,        name |-> NoneVal,   product |-> NoneVal],
       [id |-> id_AB,        name |-> name_thra, product |-> prod_AspartateKinase_padded],
       [id |-> id_k2_padded, name |-> name_THRA, product |-> NoneVal],
       [id |-> id_thra,      name |-> NoneVal,   product |-> prod_kinase],
       [id |-> id_x9,        name |-> name_THRA, product |-> prod_Aspartokinase],
       [id |-> id_y9,        name |-> <<>>,      product |-> prod_AspartateKinase_padded],
       [id |-> NoneVal,      name |-> NoneVal,   product |-> NoneVal] >>

\* the rows of RowPool at the indices S, in pool order
RECURSIVE RowsAt(_)
RowsAt(S) ==
    IF S = {} THEN <<>>
    ELSE LET m == CHOOSE x \in S : \A y \in S : x <= y
         IN  <<RowPool[m]>> \o RowsAt(S \ {m})

RowLists == {RowsAt(S) : S \in {T \in SUBSET (1..Len(RowPool)) : Cardinality(T) <= MaxInputs}}

\* app.py 507-517: the maps the caller builds from its rows, keyed by str(gid)
RECURSIVE MapOfRows(_, _)
MapOfRows(rows, field) ==
    IF rows = <<>> THEN EmptyDict
    ELSE LET r == rows[Len(rows)]
             d == MapOfRows(SubSeq(rows, 1, Len(rows) - 1), field)
         IN  IF r.id # NoneVal /\ r[field] # NoneVal THEN Put(d, r.id, r[field]) ELSE d

HashSeeds == {0, 1}

(***************************************************************************)
(* build_kegg_id_mapping as a state machine: one step per iteration of the *)
(* loop over input_gene_ids, one action per way the iteration can end.     *)
(***************************************************************************)
InLoop == pc = "loop" /\ pos <= Len(input_gene_ids)

gid == input_gene_ids[pos]

\* gid_str = str(gid).strip()
gid_str == Strip(gid)

\* the branch the loop body takes for the id at pos
Branch ==
    Resolve(gid_str, kegg_genes, kegg_ids_lower, kegg_symbol_to_id, kegg_product_to_id,
            gene_name_map, product_map)

\* lines 145-164: the lookups are built once, before the loop
BuildLookups ==
    /\ pc = "build"
    /\ kegg_ids_lower' = KeggIdsLower(kegg_genes)
    /\ kegg_symbol_to_id' = KeggSymbolToId(kegg_genes)
    /\ kegg_product_to_id' = KeggProductToId(kegg_genes)
    /\ pc' = "loop"
    /\ UNCHANGED <<resolver_inputs, mapping, pos, run, first_mapping, hashseed, ora_vars, gsea_vars, http_vars, fetch_vars, thread_vars, app_vars>>

Advance(new_mapping) ==
    /\ mapping' = new_mapping
    /\ pos' = pos + 1
    /\ UNCHANGED <<resolver_inputs, resolver_locals, pc, run, first_mapping, hashseed,
                   ora_vars, gsea_vars, http_vars, fetch_vars, thread_vars, app_vars>>

\* if gid is None or pd.isna(gid): continue
SkipMissingId ==
    /\ InLoop
    /\ gid = NoneVal
    /\ Advance(mapping)

\* Strategy 1: mapping[gid_str] = gid_str; continue
MatchExact ==
    /\ InLoop
    /\ gid # NoneVal
    /\ Branch.strategy = 1
    /\ Advance(Put(mapping, gid_str, Branch.kid[1]))

\* Strategy 2: mapping[gid_str] = kegg_ids_lower[gid_str.lower()]; continue
MatchCaseInsensitive ==
    /\ InLoop
    /\ gid # NoneVal
    /\ Branch.strategy = 2
    /\ Advance(Put(mapping, gid_str, Branch.kid[1]))

\* Strategy 3: mapping[gid_str] = kegg_symbol_to_id[str(gene_name).lower()]; continue
MatchGeneName ==
    /\ InLoop
    /\ gid # NoneVal
    /\ Branch.strategy = 3
    /\ Advance(Put(mapping, gid_str, Branch.kid[1]))

\* Strategy 4: mapping[gid_str] = kegg_symbol_to_id[gid_str.lower()]; continue
MatchIdAsSymbol ==
    /\ InLoop
    /\ gid # NoneVal
    /\ Branch.strategy = 4
    /\ Advance(Put(mapping, gid_str, Branch.kid[1]))

\* Strategy 5: mapping[gid_str] = kid; break
MatchProduct ==
    /\ InLoop
    /\ gid # NoneVal
    /\ Branch.strategy = 5
    /\ Advance(Put(mapping, gid_str, Branch.kid[1]))

\* the loop body falls through: nothing is stored for this id
NoMatch ==
    /\ InLoop
    /\ gid # NoneVal
    /\ Branch.strategy = 0
    /\ Advance(mapping)

\* return mapping
ReturnMapping ==
    /\ pc = "loop"
    /\ pos > Len(input_gene_ids)
    /\ pc' = "done"
    /\ first_mapping' = IF run = 1 THEN mapping ELSE first_mapping
    /\ UNCHANGED <<resolver_inputs, resolver_locals, mapping, pos, run, hashseed, ora_vars, gsea_vars, http_vars, fetch_vars, thread_vars, app_vars>>

\* the caller calls again with the same arguments in a fresh interpreter process,
\* whose string hash seed differs
CallAgain ==
    /\ pc = "done"
    /\ run = 1
    /\ run' = 2
    /\ pc' = "build"
    /\ pos' = 1
    /\ mapping' = EmptyDict
    /\ kegg_ids_lower' = EmptyDict
    /\ kegg_symbol_to_id' = EmptyDict
    /\ kegg_product_to_id' = EmptyOrdered
    /\ hashseed' \in HashSeeds \ {hashseed}
    /\ UNCHANGED <<resolver_inputs, first_mapping, ora_vars, gsea_vars, http_vars, fetch_vars, thread_vars, app_vars>>

OraIdle ==
    /\ de_gene_ids = {}
    /\ all_gene_ids = {}
    /\ membership = EmptyDict
    /\ id_mapping = EmptyDict
    /\ min_size = 0
    /\ max_size = 0
    /\ ora_call = "none"
    /\ ora_fg = {}
    /\ ora_bg = {}
    /\ ora_result = <<>>
    /\ pathway_gene_sets = EmptyDict

GseaIdle ==
    /\ gene_ranking = <<>>
    /\ pathways = EmptyDict
    /\ ranking_mapped = <<>>
    /\ gsea_gene_sets = EmptyDict
    /\ gsea_call = "none"
    /\ gsea_result = {}

HttpIdle ==
    /\ retries_arg = {}
    /\ max_retries = 0
    /\ attempt = 0
    /\ http_log = <<>>
    /\ slept = 0
    /\ http_pc = "idle"
    /\ http_result = ""

FetchIdle ==
    /\ cache = EmptyDict
    /\ now = 0
    /\ fetch_pc = "idle"
    /\ fetch_call = <<>>
    /\ last_fetch = <<>>
    /\ calls = 0

ThreadsIdle ==
    /\ threads = <<>>
    /\ since_request = {}
    /\ last_gap = {}

AppIdle ==
    /\ session_state = EmptyDict
    /\ app_pc = "idle"
    /\ run_no = 0
    /\ kegg_error = FALSE

LaterIdle == FetchIdle /\ ThreadsIdle /\ AppIdle

InitResolve ==
    /\ \E rows \in RowLists :
          /\ input_gene_ids = [i \in 1..Len(rows) |-> rows[i].id]
          /\ gene_name_map = MapOfRows(rows, "name")
          /\ product_map = MapOfRows(rows, "product")
    /\ kegg_genes \in RefLists
    /\ kegg_ids_lower = EmptyDict
    /\ kegg_symbol_to_id = EmptyDict
    /\ kegg_product_to_id = EmptyOrdered
    /\ mapping = EmptyDict
    /\ pos = 1
    /\ pc = "build"
    /\ run = 1
    /\ first_mapping = EmptyDict
    /\ hashseed = 0
    /\ OraIdle
    /\ GseaIdle
    /\ HttpIdle
    /\ LaterIdle

NextResolve ==
    \/ BuildLookups
    \/ SkipMissingId
    \/ MatchExact
    \/ MatchCaseInsensitive
    \/ MatchGeneName
    \/ MatchIdAsSymbol
    \/ MatchProduct
    \/ NoMatch
    \/ ReturnMapping
    \/ CallAgain

SpecResolve == InitResolve /\ [][NextResolve]_vars

(***************************************************************************)
(* Inputs around the length thresholds of strategy 5.  No id, name or      *)
(* symbol of these rows matches a reference entry, so every row comes to   *)
(* strategy 5.  The product texts, trimmed, have 15, 16, 11, 10 and 5      *)
(* characters; the reference product texts have 19, 11, 10 and 5.          *)
(***************************************************************************)
id_z1 ==
    <<"z", "1">>
id_z2 ==
    <<"z", "2">>
id_z3 ==
    <<"z", "3">>
prod_AcetylEsterase ==
    <<"A", "c", "e", "t", "y", "l", " ", "e", "s", "t", "e", "r", "a", "s", "e">>
prod_AcetylEsterases_padded ==
    <<" ", "A", "c", "e", "t", "y", "l", " ", "e", "s", "t", "e", "r", "a", "s", "e", "s", " ">>
prod_TRAnsferase ==
    <<"T", "R", "A", "n", "s", "f", "e", "r", "a", "s", "e">>
prod_oxygenases ==
    <<"o", "x", "y", "g", "e", "n", "a", "s", "e", "s">>
prod_ligas ==
    <<"l", "i", "g", "a", "s">>
desc_est_ae2 ==
    <<"e", "s", "t", ";", " ", "a", "c", "e", "t", "y", "l", " ", "e", "s", "t", "e", "r", "a", "s", "e", "s", ";", " ", "2">>
desc_Transferase ==
    <<"T", "r", "a", "n", "s", "f", "e", "r", "a", "s", "e">>
desc_oxy_oxygenases ==
    <<"o", "x", "y", ";", "o", "x", "y", "g", "e", "n", "a", "s", "e", "s">>
desc_lig_ligas ==
    <<"l", "i", "g", ";", " ", "l", "i", "g", "a", "s">>

ThresholdRefDescs == {desc_est_ae2, desc_Transferase, desc_oxy_oxygenases, desc_lig_ligas}

ThresholdRefLists ==
    UNION {{g \in [1..n -> [id : RefIds, desc : ThresholdRefDescs]] :
                \A i, j \in 1..n : i # j => g[i].id # g[j].id} : n \in 0..MaxRef}

ThresholdRowPool ==
    << [id |-> id_x9, name |-> NoneVal, product |-> prod_AcetylEsterase],
       [id |-> id_y9, name |-> NoneVal, product |-> prod_AcetylEsterases_padded],
       [id |-> id_z1, name |-> NoneVal, product |-> prod_TRAnsferase],
       [id |-> id_z2, name |-> NoneVal, product |-> prod_oxygenases],
       [id |-> id_z3, name |-> NoneVal, product |-> prod_ligas] >>

RECURSIVE ThresholdRowsAt(_)
ThresholdRowsAt(S) ==
    IF S = {} THEN <<>>
    ELSE LET m == CHOOSE x \in S : \A y \in S : x <= y
         IN  <<ThresholdRowPool[m]>> \o ThresholdRowsAt(S \ {m})

ThresholdRowLists ==
    {ThresholdRowsAt(S) :
        S \in {T \in SUBSET (1..Len(ThresholdRowPool)) : Cardinality(T) <= MaxInputs}}

\* build_kegg_id_mapping called on these inputs
InitStrategy5 ==
    /\ \E rows \in ThresholdRowLists :
          /\ input_gene_ids = [i \in 1..Len(rows) |-> rows[i].id]
          /\ gene_name_map = MapOfRows(rows, "name")
          /\ product_map = MapOfRows(rows, "product")
    /\ kegg_genes \in ThresholdRefLists
    /\ kegg_ids_lower = EmptyDict
    /\ kegg_symbol_to_id = EmptyDict
    /\ kegg_product_to_id = EmptyOrdered
    /\ mapping = EmptyDict
    /\ pos = 1
    /\ pc = "build"
    /\ run = 1
    /\ first_mapping = EmptyDict
    /\ hashseed = 0
    /\ OraIdle
    /\ GseaIdle
    /\ HttpIdle
    /\ LaterIdle

\* the steps these inputs can take: no id is missing and none matches under
\* strategies 1 to 4
NextStrategy5 ==
    \/ BuildLookups
    \/ MatchProduct
    \/ NoMatch
    \/ ReturnMapping

SpecStrategy5 == InitStrategy5 /\ [][NextStrategy5]_vars

(***************************************************************************)
(* Over-representation: run_kegg_ora and run_cog_enrichment.               *)
(*                                                                         *)
(* A p-value is the exact rational <<numerator, denominator>>; a rounded   *)
(* float is the integer number of its last decimal place (round(x, 4) is   *)
(* kept in units of 1/10000).  The Description column, a name looked up by *)
(* category code, is left out of the records.                              *)
(***************************************************************************)
\* sorted(COG_CATEGORIES.keys())
COG_CATEGORIES ==
    <<"A", "B", "C", "D", "E", "F", "G", "H", "I", "J", "K", "L", "M",
      "N", "O", "P", "Q", "R", "S", "T", "U", "V", "W", "X", "Y", "Z">>

\* 'OddsRatio': ... else 999.0, in units of 1/10000
ODDS_SENTINEL == 9990000

\* round(x, 4) and round(x * 100, 2) keep this many units per 1
ROUND_UNITS == 10000

OraGenes == {"g1", "g2", "g3"}

\* the membership lists a gene may carry: one category, one category named
\* twice, and two codes of which one is no COG letter
MembershipLists == {<<"J">>, <<"J", "J">>, <<"K", "p1">>}

Memberships == UNION {[D -> MembershipLists] : D \in SUBSET OraGenes}

\* id_mapping arguments: not given, empty, a partial identity, two ids onto one
IdMappings ==
    {NoneVal, EmptyDict,
     [g \in {"g1", "g2"} |-> g],
     [g \in {"g1", "g2"} |-> "g3"]}

MinSizes == {1, 2}

MaxSizes == {1, 500}

\* Python truthiness of a dict argument: None and {} are both false
Truthy(d) == d # NoneVal /\ DOMAIN d # {}

\* {id_mapping[g] for g in ids if g in id_mapping}, or set(ids) without a mapping
MappedSet(ids, m) ==
    IF Truthy(m) THEN {m[g] : g \in ids \cap DOMAIN m} ELSE ids

\* the codes named by any membership list
CodesIn(memb) == UNION {{memb[g][i] : i \in 1..Len(memb[g])} : g \in DOMAIN memb}

\* the order in which a dict keyed by gene is iterated: the order of insertion
GeneOrder == <<"g1", "g2", "g3">>

LinkOrder(memb) == SelectSeq(GeneOrder, LAMBDA g : g \in DOMAIN memb)

\* for pw in pw_list[i..]: pathway_gene_sets.setdefault(pw, set()).add(gene)
RECURSIVE AddToIndex(_, _, _, _)
AddToIndex(index, gene, pw_list, i) ==
    IF i > Len(pw_list) THEN index
    ELSE LET pw == pw_list[i]
             had == IF pw \in DOMAIN index THEN index[pw] ELSE {}
         IN  AddToIndex(Put(index, pw, had \cup {gene}), gene, pw_list, i + 1)

\* the index built without the test on the universe
RECURSIVE PathwayIndexFrom_AnyGene(_, _, _, _, _)
PathwayIndexFrom_AnyGene(memb, universe, order, i, index) ==
    IF i > Len(order) THEN index
    ELSE PathwayIndexFrom_AnyGene(memb, universe, order, i + 1,
                                  AddToIndex(index, order[i], memb[order[i]], 1))

\* for gene, pw_list in order[i..]: if gene in universe: add gene under its pathways
RECURSIVE PathwayIndexFrom(_, _, _, _, _)
PathwayIndexFrom(memb, universe, order, i, index) ==
    IF i > Len(order) THEN index
    ELSE PathwayIndexFrom(memb, universe, order, i + 1,
                          IF order[i] \in universe
                          THEN AddToIndex(index, order[i], memb[order[i]], 1)
                          ELSE index)

\* pathway_gene_sets as run_kegg_ora builds it, the links iterated in the order given
PathwayIndex(memb, universe, order) == PathwayIndexFrom(memb, universe, order, 1, EmptyDict)

\* pathway_gene_sets[pw]
PathwayGeneSet(memb, universe, pw) == PathwayIndex(memb, universe, LinkOrder(memb))[pw]

\* the keys of pathway_gene_sets
PathwayKeys(memb, universe) == DOMAIN PathwayIndex(memb, universe, LinkOrder(memb))

\* sum over the genes of S of the number of times their list names cat:
\*   for gene in S: if gene in cog_mapping: for c in cog_mapping[gene]: counts[c] += 1
RECURSIVE CogCount(_, _, _)
CogCount(memb, S, cat) ==
    IF S = {} THEN 0
    ELSE LET g == CHOOSE x \in S : TRUE
             here == IF g \in DOMAIN memb
                     THEN Cardinality({i \in 1..Len(memb[g]) : memb[g][i] = cat})
                     ELSE 0
         IN  here + CogCount(memb, S \ {g}, cat)

RECURSIVE Binomial(_, _)
Binomial(n, r) ==
    IF r < 0 \/ r > n THEN 0
    ELSE IF r = 0 THEN 1
    ELSE (Binomial(n - 1, r - 1) * n) \div r

RECURSIVE SumTo(_, _, _, _)
\* sum over x in 0..upto of C(n1, x) * C(n2, draws - x)
SumTo(upto, n1, n2, draws) ==
    IF upto < 0 THEN 0
    ELSE Binomial(n1, upto) * Binomial(n2, draws - upto) + SumTo(upto - 1, n1, n2, draws)

\* round(num/den, places) for num >= 0, den > 0, in units of the last place:
\* round half to even
RoundDiv(num, den) ==
    LET q == num \div den
        r == num % den
    IN  IF 2 * r < den THEN q
        ELSE IF 2 * r > den THEN q + 1
        ELSE IF q % 2 = 0 THEN q ELSE q + 1

\* table = [[k, n - k], [K - k, max(0, N - K - n + k)]]
Table(k, n, K, N) ==
    [a |-> k, b |-> n - k, c |-> K - k,
     d |-> IF N - K - n + k > 0 THEN N - K - n + k ELSE 0]

\* stats.fisher_exact(table, alternative='greater'):
\*   a negative cell raises ValueError; a zero row or column gives (nan, 1.0);
\*   the odds ratio is a*d/(b*c), inf when b or c is 0; the p-value is
\*   hypergeom.cdf(b, a+b+c+d, a+b, b+d), never above 1
FisherExact(t) ==
    IF t.a < 0 \/ t.b < 0 \/ t.c < 0 \/ t.d < 0
    THEN [raises |-> TRUE]
    ELSE IF t.a + t.b = 0 \/ t.c + t.d = 0 \/ t.a + t.c = 0 \/ t.b + t.d = 0
    THEN [raises |-> FALSE, odds |-> [kind |-> "nan"], pvalue |-> <<1, 1>>]
    ELSE [raises |-> FALSE,
          odds |-> IF t.c > 0 /\ t.b > 0
                   THEN [kind |-> "num", num |-> t.a * t.d, den |-> t.c * t.b]
                   ELSE [kind |-> "inf"],
          pvalue |-> <<SumTo(t.b, t.a + t.b, t.c + t.d, t.b + t.d),
                       Binomial(t.a + t.b + t.c + t.d, t.b + t.d)>>]

\* round(odds_ratio, 4): inf and nan stay what they are
RoundOdds(o) ==
    IF o.kind = "num" THEN [kind |-> "num", units |-> RoundDiv(o.num * ROUND_UNITS, o.den)]
    ELSE o

\* round(odds_ratio, 4) if not np.isinf(odds_ratio) else 999.0
CogOdds(o) ==
    IF o.kind = "inf" THEN [kind |-> "num", units |-> ODDS_SENTINEL] ELSE RoundOdds(o)

\* a fold-enrichment cut off after the fourth decimal instead of rounded
FoldEnrichment_Floor(k, n, K, N) ==
    IF K > 0 /\ n > 0 /\ N > 0 THEN (k * N * ROUND_UNITS) \div (n * K) ELSE 0

\* round((k / n) / (K / N), 4) if K > 0 and n > 0 and N > 0 else 0
FoldEnrichment(k, n, K, N) ==
    IF K > 0 /\ n > 0 /\ N > 0 THEN RoundDiv(k * N * ROUND_UNITS, n * K) ELSE 0

\* round(k / n * 100, 2) if n > 0 else 0
RatioPercent(k, n) == IF n > 0 THEN RoundDiv(k * 100 * 100, n) ELSE 0

\* p <= q for rationals with positive denominators
RatLeq(p, q) == p[1] * q[2] <= q[1] * p[2]

\* the smaller of two rationals
RatMin(p, q) == IF RatLeq(p, q) THEN p ELSE q

\* multipletests(pvalues, method='fdr_bh') for the record r among the records R:
\* the least of p' * m / rank(p') over the p-values p' >= p, never above 1, where
\* rank(p') counts the p-values <= p'
RECURSIVE RatMinOver(_)
RatMinOver(S) ==
    LET x == CHOOSE y \in S : TRUE
    IN  IF S = {x} THEN x ELSE RatMin(x, RatMinOver(S \ {x}))

\* an adjustment that divides by the rank and forgets the number of tests
BenjaminiHochberg_NoFamily(r, R) ==
    LET rank(q) == Cardinality({x \in R : RatLeq(x.pvalue, q)})
        above == {x \in R : RatLeq(r.pvalue, x.pvalue)}
    IN  RatMinOver({<<1, 1>>} \cup {<<x.pvalue[1], x.pvalue[2] * rank(x.pvalue)>> : x \in above})

\* a correction whose family counts one test more than the records it is
\* given, as it would with a skipped category's test left in
BenjaminiHochberg_CountsSkipped(r, R) ==
    LET m == Cardinality(R) + 1
        rank(q) == Cardinality({x \in R : RatLeq(x.pvalue, q)})
        above == {x \in R : RatLeq(r.pvalue, x.pvalue)}
    IN  RatMinOver({<<1, 1>>} \cup {<<x.pvalue[1] * m, x.pvalue[2] * rank(x.pvalue)>> : x \in above})

BenjaminiHochberg(r, R) ==
    LET m == Cardinality(R)
        rank(q) == Cardinality({x \in R : RatLeq(x.pvalue, q)})
        above == {x \in R : RatLeq(r.pvalue, x.pvalue)}
    IN  RatMinOver({<<1, 1>>} \cup {<<x.pvalue[1] * m, x.pvalue[2] * rank(x.pvalue)>> : x \in above})

\* df['p.adjust'] = padj
WithAdjusted(R) ==
    {[f \in (DOMAIN r) \cup {"p_adjust"} |->
         IF f = "p_adjust" THEN BenjaminiHochberg(r, R) ELSE r[f]] : r \in R}

\* the records in an order that descends in p-value
SortedByPvalue_Descending(R) ==
    {s \in [1..Cardinality(R) -> R] :
        /\ \A i, j \in 1..Cardinality(R) : i # j => s[i] # s[j]
        /\ \A i, j \in 1..Cardinality(R) : i < j => RatLeq(s[j].pvalue, s[i].pvalue)}

\* df.sort_values('pvalue'): every order of the records that ascends in p-value
\* (the sort is not stable, so the order among equal p-values is not fixed)
SortedByPvalue(R) ==
    {s \in [1..Cardinality(R) -> R] :
        /\ \A i, j \in 1..Cardinality(R) : i # j => s[i] # s[j]
        /\ \A i, j \in 1..Cardinality(R) : i < j => RatLeq(s[i].pvalue, s[j].pvalue)}

\* run_kegg_ora without the test on max_size
KeggRecord_NoUpperBound(pw, memb, de_mapped, all_mapped, lo, hi) ==
    LET pw_genes == PathwayGeneSet(memb, all_mapped, pw)
        N == Cardinality(all_mapped)
        n == Cardinality(de_mapped)
        K == Cardinality(pw_genes)
        k == Cardinality(pw_genes \cap de_mapped)
        test == FisherExact(Table(k, n, K, N))
    IN  IF K < lo THEN {}
        ELSE IF k = 0 THEN {}
        ELSE IF test.raises THEN {}
        ELSE {[Pathway_ID |-> pw,
               GeneRatio |-> <<k, n>>,
               BgRatio |-> <<K, N>>,
               pvalue |-> test.pvalue,
               OddsRatio |-> RoundOdds(test.odds),
               Count |-> k,
               Genes |-> pw_genes \cap de_mapped]}

\* the record run_kegg_ora appends for pathway pw, in a set: empty when the
\* pathway is skipped
KeggRecord(pw, memb, de_mapped, all_mapped, lo, hi) ==
    LET pw_genes == PathwayGeneSet(memb, all_mapped, pw)
        N == Cardinality(all_mapped)
        n == Cardinality(de_mapped)
        K == Cardinality(pw_genes)
        k == Cardinality(pw_genes \cap de_mapped)
        test == FisherExact(Table(k, n, K, N))
    IN  IF K < lo \/ K > hi THEN {}
        ELSE IF k = 0 THEN {}
        ELSE IF test.raises THEN {}
        ELSE {[Pathway_ID |-> pw,
               GeneRatio |-> <<k, n>>,
               BgRatio |-> <<K, N>>,
               pvalue |-> test.pvalue,
               OddsRatio |-> RoundOdds(test.odds),
               Count |-> k,
               Genes |-> pw_genes \cap de_mapped]}

\* run_cog_enrichment with the k == 0 skip of run_kegg_ora
CogRecord_SkipsZero(cat, memb, de_set, all_set, min_count) ==
    LET N == Cardinality(all_set)
        n == Cardinality(de_set)
        K == CogCount(memb, all_set, cat)
        k == CogCount(memb, de_set, cat)
        test == FisherExact(Table(k, n, K, N))
    IN  IF K < min_count THEN {}
        ELSE IF k = 0 THEN {}
        ELSE IF test.raises THEN {}
        ELSE {[COG_Category |-> cat,
               DE_Count |-> k,
               Background_Count |-> K,
               DE_Total |-> n,
               Background_Total |-> N,
               Ratio_DE |-> RatioPercent(k, n),
               Ratio_BG |-> RatioPercent(K, N),
               Fold_Enrichment |-> FoldEnrichment(k, n, K, N),
               pvalue |-> test.pvalue,
               OddsRatio |-> CogOdds(test.odds)]}

\* the record run_cog_enrichment appends for category cat, in a set
CogRecord(cat, memb, de_set, all_set, min_count) ==
    LET N == Cardinality(all_set)
        n == Cardinality(de_set)
        K == CogCount(memb, all_set, cat)
        k == CogCount(memb, de_set, cat)
        test == FisherExact(Table(k, n, K, N))
    IN  IF K < min_count THEN {}
        ELSE IF test.raises THEN {}
        ELSE {[COG_Category |-> cat,
               DE_Count |-> k,
               Background_Count |-> K,
               DE_Total |-> n,
               Background_Total |-> N,
               Ratio_DE |-> RatioPercent(k, n),
               Ratio_BG |-> RatioPercent(K, N),
               Fold_Enrichment |-> FoldEnrichment(k, n, K, N),
               pvalue |-> test.pvalue,
               OddsRatio |-> CogOdds(test.odds)]}

\* run_kegg_ora(de_gene_ids, all_gene_ids, gene_pathway_links, pathways,
\*              id_mapping, min_size, max_size)
\* (each behaviour makes one call: what a call returns depends on nothing but
\* its arguments, which ora_call = "none" leaves as Init drew them)
RunKeggOra ==
    \E m \in IdMappings, lo \in MinSizes, hi \in MaxSizes :
        LET de_mapped == MappedSet(de_gene_ids, m)
            all_mapped == MappedSet(all_gene_ids, m)
            results == UNION {KeggRecord(pw, membership, de_mapped, all_mapped, lo, hi) :
                                  pw \in PathwayKeys(membership, all_mapped)}
        IN  /\ ora_call = "none"
            /\ id_mapping' = m
            /\ min_size' = lo
            /\ max_size' = hi
            /\ ora_call' = "kegg"
            /\ ora_fg' = de_mapped
            /\ ora_bg' = all_mapped
            /\ pathway_gene_sets' = PathwayIndex(membership, all_mapped, LinkOrder(membership))
            /\ ora_result' \in SortedByPvalue(WithAdjusted(results))
            /\ UNCHANGED <<de_gene_ids, all_gene_ids, membership, resolver_vars, gsea_vars, http_vars, fetch_vars, thread_vars, app_vars>>

\* run_cog_enrichment without the try/except around stats.fisher_exact: the
\* ValueError of one category's table ends the call
RunCogEnrichment_Raises ==
    \E min_count \in MinSizes :
        LET results == UNION {CogRecord(COG_CATEGORIES[i], membership, de_gene_ids,
                                        all_gene_ids, min_count) :
                                  i \in 1..Len(COG_CATEGORIES)}
            raised == \E i \in 1..Len(COG_CATEGORIES) :
                          /\ CogCount(membership, all_gene_ids, COG_CATEGORIES[i]) >= min_count
                          /\ FisherExact(Table(CogCount(membership, de_gene_ids, COG_CATEGORIES[i]),
                                               Cardinality(de_gene_ids),
                                               CogCount(membership, all_gene_ids, COG_CATEGORIES[i]),
                                               Cardinality(all_gene_ids))).raises
        IN  /\ ora_call = "none"
            /\ id_mapping' = NoneVal
            /\ min_size' = min_count
            /\ max_size' = 0
            /\ ora_call' = IF raised THEN "raised" ELSE "cog"
            /\ ora_fg' = de_gene_ids
            /\ ora_bg' = all_gene_ids
            /\ pathway_gene_sets' = EmptyDict
            /\ IF raised THEN ora_result' = <<>>
               ELSE ora_result' \in SortedByPvalue(WithAdjusted(results))
            /\ UNCHANGED <<de_gene_ids, all_gene_ids, membership, resolver_vars, gsea_vars, http_vars, fetch_vars, thread_vars, app_vars>>

\* run_cog_enrichment(de_gene_ids, all_gene_ids, cog_mapping, min_count)
RunCogEnrichment ==
    \E min_count \in MinSizes :
        LET results == UNION {CogRecord(COG_CATEGORIES[i], membership, de_gene_ids,
                                        all_gene_ids, min_count) :
                                  i \in 1..Len(COG_CATEGORIES)}
        IN  /\ ora_call = "none"
            /\ id_mapping' = NoneVal
            /\ min_size' = min_count
            /\ max_size' = 0
            /\ ora_call' = "cog"
            /\ ora_fg' = de_gene_ids
            /\ ora_bg' = all_gene_ids
            /\ pathway_gene_sets' = EmptyDict
            /\ ora_result' \in SortedByPvalue(WithAdjusted(results))
            /\ UNCHANGED <<de_gene_ids, all_gene_ids, membership, resolver_vars, gsea_vars, http_vars, fetch_vars, thread_vars, app_vars>>

ResolverIdle ==
    /\ input_gene_ids = <<>>
    /\ kegg_genes = <<>>
    /\ gene_name_map = EmptyDict
    /\ product_map = EmptyDict
    /\ kegg_ids_lower = EmptyDict
    /\ kegg_symbol_to_id = EmptyDict
    /\ kegg_product_to_id = EmptyOrdered
    /\ mapping = EmptyDict
    /\ pos = 1
    /\ pc = "idle"
    /\ run = 1
    /\ first_mapping = EmptyDict
    /\ hashseed = 0

InitOra ==
    /\ de_gene_ids \in SUBSET OraGenes
    /\ all_gene_ids \in SUBSET OraGenes
    /\ membership \in Memberships
    /\ id_mapping = NoneVal
    /\ min_size = 0
    /\ max_size = 0
    /\ ora_call = "none"
    /\ ora_fg = {}
    /\ ora_bg = {}
    /\ ora_result = <<>>
    /\ pathway_gene_sets = EmptyDict
    /\ ResolverIdle
    /\ GseaIdle
    /\ HttpIdle
    /\ LaterIdle

NextOra ==
    \/ RunKeggOra
    \/ RunCogEnrichment

SpecOra == InitOra /\ [][NextOra]_vars


(***************************************************************************)
(* Rank enrichment: run_kegg_gsea.                                         *)
(*                                                                         *)
(* A ranking is a sequence of [gene, score] with integer scores.  Of what  *)
(* gp.prerank returns the model keeps, per gene set, the enrichment score  *)
(* (an exact rational, or NaN) and the leading-edge genes; the normalised  *)
(* score and the p-values, which come from random permutations, are left   *)
(* out, and with them the order of the returned records.                   *)
(***************************************************************************)
\* if len(ranking_mapped) < 10
MIN_RANKED_GENES == 10

\* ranking_mapped.index = [id_mapping[idx] if idx in id_mapping else idx ...]
MapRanking(rnk, m) ==
    IF Truthy(m)
    THEN [i \in 1..Len(rnk) |->
             [gene |-> IF rnk[i].gene \in DOMAIN m THEN m[rnk[i].gene] ELSE rnk[i].gene,
              score |-> rnk[i].score]]
    ELSE rnk

\* a de-duplication that keeps the last entry of each id
RECURSIVE DropDuplicatedFrom_KeepLast(_, _)
DropDuplicatedFrom_KeepLast(rnk, i) ==
    IF i > Len(rnk) THEN <<>>
    ELSE IF \E j \in (i + 1)..Len(rnk) : rnk[j].gene = rnk[i].gene
         THEN DropDuplicatedFrom_KeepLast(rnk, i + 1)
         ELSE <<rnk[i]>> \o DropDuplicatedFrom_KeepLast(rnk, i + 1)

\* ranking_mapped[~ranking_mapped.index.duplicated(keep='first')], from entry i on
RECURSIVE DropDuplicatedFrom(_, _)
DropDuplicatedFrom(rnk, i) ==
    IF i > Len(rnk) THEN <<>>
    ELSE IF \E j \in 1..(i - 1) : rnk[j].gene = rnk[i].gene
         THEN DropDuplicatedFrom(rnk, i + 1)
         ELSE <<rnk[i]>> \o DropDuplicatedFrom(rnk, i + 1)

DropDuplicated(rnk) == DropDuplicatedFrom(rnk, 1)

\* pathways.get(pw, pw)
PathwayName(names, pw) == IF pw \in DOMAIN names THEN names[pw] ELSE pw

\* gene sets in which a gene replaces the list of its pathway instead of joining it
NamedGeneSets_Overwrites(memb, names) ==
    LET keys == {PathwayName(names, pw) : pw \in CodesIn(memb)}
    IN  [k \in keys |->
            LET members == {g \in DOMAIN memb :
                               \E i \in 1..Len(memb[g]) : PathwayName(names, memb[g][i]) = k}
            IN  {CHOOSE g \in members : TRUE}]

\* pathway_gene_sets of run_kegg_gsea before the size filter: every gene of the
\* links under the name of each pathway of its list, as a set (set(v))
NamedGeneSets(memb, names) ==
    LET keys == {PathwayName(names, pw) : pw \in CodesIn(memb)}
    IN  [k \in keys |->
            {g \in DOMAIN memb :
                \E i \in 1..Len(memb[g]) : PathwayName(names, memb[g][i]) = k}]

\* {k: list(set(v)) for k, v in ... if min_size <= len(set(v)) <= max_size}
SizeFiltered(sets, lo, hi) ==
    [k \in {x \in DOMAIN sets : lo <= Cardinality(sets[x]) /\ Cardinality(sets[x]) <= hi}
        |-> sets[k]]

Abs(x) == IF x < 0 THEN 0 - x ELSE x

RECURSIVE SumOver(_, _, _)
\* sum of f[i] for the i of 1..upto that are in S
SumOver(f, upto, S) ==
    IF upto = 0 THEN 0
    ELSE (IF upto \in S THEN f[upto] ELSE 0) + SumOver(f, upto - 1, S)

\* np.cumsum of the steps from entry i on, acc being the sum before entry i:
\* a hit steps up by |score| * Nmiss, a miss steps down by W
RECURSIVE RunningSumFrom(_, _, _, _, _, _)
RunningSumFrom(rnk, gs, W, Nmiss, i, acc) ==
    IF i > Len(rnk) THEN <<>>
    ELSE LET here == acc + (IF rnk[i].gene \in gs THEN Nmiss * Abs(rnk[i].score) ELSE 0 - W)
         IN  <<here>> \o RunningSumFrom(rnk, gs, W, Nmiss, i + 1, here)

\* gseapy's enrichment score of gene set gs on ranking rnk, weight 1:
\*   RES[i] = sum over hits j <= i of |score[j]| / W - (misses up to i) / Nmiss
\* with W the hits' total |score|; the score is RES.max() if it is larger in
\* size than RES.min(), else RES.min(); the leading edge is the hits up to the
\* first maximum (score > 0) or from the first minimum on (score < 0).
\* RES is kept as the integer RES * W * Nmiss.  W = 0 or Nmiss = 0 gives NaN.
EnrichmentScore(rnk, gs) ==
    LET N == Len(rnk)
        hits == {i \in 1..N : rnk[i].gene \in gs}
        misses == (1..N) \ hits
        weight == [i \in 1..N |-> Abs(rnk[i].score)]
        ones == [i \in 1..N |-> 1]
        Nmiss == SumOver(ones, N, misses)
        W == SumOver(weight, N, hits)
        RES == RunningSumFrom(rnk, gs, W, Nmiss, 1, 0)
        max_ES == CHOOSE x \in {RES[i] : i \in 1..N} : \A i \in 1..N : RES[i] <= x
        min_ES == CHOOSE x \in {RES[i] : i \in 1..N} : \A i \in 1..N : RES[i] >= x
        es == IF Abs(max_ES) > Abs(min_ES) THEN max_ES ELSE min_ES
        argmax == CHOOSE i \in 1..N : RES[i] = max_ES /\ \A j \in 1..(i - 1) : RES[j] # max_ES
        argmin == CHOOSE i \in 1..N : RES[i] = min_ES /\ \A j \in 1..(i - 1) : RES[j] # min_ES
        ledge == IF es > 0 THEN {i \in hits : i <= argmax}
                 ELSE IF es < 0 THEN {i \in hits : i >= argmin}
                 ELSE hits
    IN  IF W = 0 \/ Nmiss = 0
        THEN [nan |-> TRUE, num |-> 0, den |-> 1,
              Lead_genes |-> {}]
        ELSE [nan |-> FALSE, num |-> es, den |-> W * Nmiss,
              Lead_genes |-> {rnk[i].gene : i \in ledge}]

\* the gene sets gp.prerank keeps: those with min_size to max_size genes in the ranking
PrerankSets(rnk, sets, lo, hi) ==
    LET present == {rnk[i].gene : i \in 1..Len(rnk)}
    IN  {k \in DOMAIN sets : lo <= Cardinality(sets[k] \cap present)
                             /\ Cardinality(sets[k] \cap present) <= hi}

\* pre_res.res2d: one record per gene set kept
PrerankRecords(rnk, sets, lo, hi) ==
    {[Term |-> k, ES |-> EnrichmentScore(rnk, sets[k])] : k \in PrerankSets(rnk, sets, lo, hi)}

\* gp.prerank raises when no gene set is left to test; a gene set whose score
\* cannot be computed (NaN) may be reported as NaN or may make the call raise
PrerankMustRaise(rnk, sets, lo, hi) == PrerankSets(rnk, sets, lo, hi) = {}

PrerankMayRaise(rnk, sets, lo, hi) ==
    \/ PrerankMustRaise(rnk, sets, lo, hi)
    \/ \E r \in PrerankRecords(rnk, sets, lo, hi) : r.ES.nan

\* a test that forgets the length of the ranking
GseaTooSmall_SetsOnly(prep) == DOMAIN prep.sets = {}

\* if not pathway_gene_sets or len(ranking_mapped) < 10
GseaTooSmall(prep) == DOMAIN prep.sets = {} \/ Len(prep.ranking) < MIN_RANKED_GENES

\* the genes ranked besides g1, g2, g3
GseaTail == <<"r4", "r5", "r6", "r7", "r8", "r9", "r10", "r11", "r12">>

\* the orders g1, g2, g3 may stand in at the top of a ranking
GseaHeads == {<<"g1", "g2", "g3">>, <<"g2", "g1">>, <<"g3">>}

GseaTailLens == {7, 9}

\* rankings of 8 to 12 genes with g1, g2, g3 at the top, and one with them last
GseaGeneOrders ==
    {h \o SubSeq(GseaTail, 1, n) : <<h, n>> \in GseaHeads \X GseaTailLens}
        \cup {GseaTail \o <<"g3", "g2", "g1">>}

\* the score of the top entry; the scores go down by 1 per entry, so that the
\* ranking is all positive, crosses 0 at the third entry, or is all negative
GseaTopScores == {12, 2, -1}

\* get_gene_ranking: distinct gene ids, log2FoldChange descending
GseaRankings ==
    {[i \in 1..Len(o) |-> [gene |-> o[i], score |-> top + 1 - i]] :
        <<o, top>> \in GseaGeneOrders \X GseaTopScores}

\* the pathways dict: no names, or one name for the pathways J and K
PathwayNames == {EmptyDict, [pw \in {"J", "K"} |-> "n1"]}

\* id_mapping arguments: not given, a partial identity, two ids onto one
GseaIdMappings == IdMappings \ {EmptyDict}

GseaMinSizes == {1, 5}

GseaMaxSizes == {2, 500}

\* run_kegg_gsea(gene_ranking, gene_pathway_links, pathways, id_mapping,
\*               min_size, max_size, permutations), returning at line 363
\* (each behaviour makes one call, as for run_kegg_ora)
GseaReturnEmpty ==
    /\ gsea_call = "none"
    /\ \E m \in GseaIdMappings :
        LET ranking == DropDuplicated(MapRanking(gene_ranking, m))
            named == NamedGeneSets(membership, pathways)
        IN  \E lo \in GseaMinSizes, hi \in GseaMaxSizes :
        LET prep == [ranking |-> ranking, sets |-> SizeFiltered(named, lo, hi)]
        IN  /\ GseaTooSmall(prep)
            /\ id_mapping' = m
            /\ min_size' = lo
            /\ max_size' = hi
            /\ ranking_mapped' = prep.ranking
            /\ gsea_gene_sets' = prep.sets
            /\ gsea_call' = "empty"
            /\ gsea_result' = {}
            /\ UNCHANGED <<gene_ranking, pathways, membership, de_gene_ids, all_gene_ids,
                           ora_call, ora_fg, ora_bg, ora_result, pathway_gene_sets,
                           resolver_vars, http_vars, fetch_vars, thread_vars, app_vars>>

\* run_kegg_gsea returning the records of gp.prerank at line 379
GseaPrerank ==
    /\ gsea_call = "none"
    /\ \E m \in GseaIdMappings :
        LET ranking == DropDuplicated(MapRanking(gene_ranking, m))
            named == NamedGeneSets(membership, pathways)
        IN  \E lo \in GseaMinSizes, hi \in GseaMaxSizes :
        LET prep == [ranking |-> ranking, sets |-> SizeFiltered(named, lo, hi)]
        IN  /\ ~GseaTooSmall(prep)
            /\ ~PrerankMustRaise(prep.ranking, prep.sets, lo, hi)
            /\ id_mapping' = m
            /\ min_size' = lo
            /\ max_size' = hi
            /\ ranking_mapped' = prep.ranking
            /\ gsea_gene_sets' = prep.sets
            /\ gsea_call' = "prerank"
            /\ gsea_result' = PrerankRecords(prep.ranking, prep.sets, lo, hi)
            /\ UNCHANGED <<gene_ranking, pathways, membership, de_gene_ids, all_gene_ids,
                           ora_call, ora_fg, ora_bg, ora_result, pathway_gene_sets,
                           resolver_vars, http_vars, fetch_vars, thread_vars, app_vars>>

\* run_kegg_gsea catching an exception of gp.prerank: st.warning and line 382
GseaPrerankRaises ==
    /\ gsea_call = "none"
    /\ \E m \in GseaIdMappings :
        LET ranking == DropDuplicated(MapRanking(gene_ranking, m))
            named == NamedGeneSets(membership, pathways)
        IN  \E lo \in GseaMinSizes, hi \in GseaMaxSizes :
        LET prep == [ranking |-> ranking, sets |-> SizeFiltered(named, lo, hi)]
        IN  /\ ~GseaTooSmall(prep)
            /\ PrerankMayRaise(prep.ranking, prep.sets, lo, hi)
            /\ id_mapping' = m
            /\ min_size' = lo
            /\ max_size' = hi
            /\ ranking_mapped' = prep.ranking
            /\ gsea_gene_sets' = prep.sets
            /\ gsea_call' = "warning"
            /\ gsea_result' = {}
            /\ UNCHANGED <<gene_ranking, pathways, membership, de_gene_ids, all_gene_ids,
                           ora_call, ora_fg, ora_bg, ora_result, pathway_gene_sets,
                           resolver_vars, http_vars, fetch_vars, thread_vars, app_vars>>

InitGsea ==
    /\ gene_ranking \in GseaRankings
    /\ membership \in Memberships
    /\ pathways \in PathwayNames
    /\ ranking_mapped = <<>>
    /\ gsea_gene_sets = EmptyDict
    /\ gsea_call = "none"
    /\ gsea_result = {}
    /\ de_gene_ids = {}
    /\ all_gene_ids = {}
    /\ id_mapping = NoneVal
    /\ min_size = 0
    /\ max_size = 0
    /\ ora_call = "none"
    /\ ora_fg = {}
    /\ ora_bg = {}
    /\ ora_result = <<>>
    /\ pathway_gene_sets = EmptyDict
    /\ ResolverIdle
    /\ HttpIdle
    /\ LaterIdle

NextGsea ==
    \/ GseaReturnEmpty
    \/ GseaPrerank
    \/ GseaPrerankRaises

SpecGsea == InitGsea /\ [][NextGsea]_vars

(***************************************************************************)
(* The KEGG REST request: _kegg_get.                                       *)
(*                                                                         *)
(* What the server and the network do at each attempt is the environment's *)
(* choice.  A response body is an opaque string.  Time is in hundredths of *)
(* a second.                                                               *)
(***************************************************************************)
\* the largest max_retries passed
MaxRetriesArg == 4

\* def _kegg_get(endpoint, max_retries=3)
DEFAULT_MAX_RETRIES == 3

\* REQUEST_DELAY = 0.35
REQUEST_DELAY == 35

\* time.sleep(5) after a 403
FORBIDDEN_DELAY == 500

\* time.sleep(2) after a RequestException
EXCEPTION_DELAY == 200

ResponseTexts == {"", "body"}

OtherStatusCodes == {404, 500}

\* for attempt in range(max_retries): another iteration is due
InRetryLoop == http_pc = "loop" /\ attempt < max_retries

\* an attempt answered with status 200: return resp.text
KeggGetOk ==
    /\ InRetryLoop
    /\ \E text \in ResponseTexts :
          /\ http_log' = Append(http_log, [status |-> 200, text |-> text])
          /\ http_result' = text
    /\ attempt' = attempt + 1
    /\ slept' = slept + REQUEST_DELAY
    /\ http_pc' = "done"
    /\ UNCHANGED <<retries_arg, max_retries, resolver_vars, ora_vars, gsea_vars, fetch_vars, thread_vars, app_vars>>

\* an attempt answered with status 403: time.sleep(5); continue
KeggGetForbidden ==
    /\ InRetryLoop
    /\ http_log' = Append(http_log, [status |-> 403])
    /\ attempt' = attempt + 1
    /\ slept' = slept + REQUEST_DELAY + FORBIDDEN_DELAY
    /\ UNCHANGED <<retries_arg, max_retries, http_pc, http_result,
                   resolver_vars, ora_vars, gsea_vars, fetch_vars, thread_vars, app_vars>>

\* an attempt answered with another status: on to the next iteration
KeggGetOtherStatus ==
    /\ InRetryLoop
    /\ \E code \in OtherStatusCodes : http_log' = Append(http_log, [status |-> code])
    /\ attempt' = attempt + 1
    /\ slept' = slept + REQUEST_DELAY
    /\ UNCHANGED <<retries_arg, max_retries, http_pc, http_result,
                   resolver_vars, ora_vars, gsea_vars, fetch_vars, thread_vars, app_vars>>

\* an attempt that raised requests.exceptions.RequestException (a timeout, a
\* refused connection): time.sleep(2)
KeggGetRequestException ==
    /\ InRetryLoop
    /\ http_log' = Append(http_log, [status |-> 0])
    /\ attempt' = attempt + 1
    /\ slept' = slept + REQUEST_DELAY + EXCEPTION_DELAY
    /\ UNCHANGED <<retries_arg, max_retries, http_pc, http_result,
                   resolver_vars, ora_vars, gsea_vars, fetch_vars, thread_vars, app_vars>>

\* a give-up that raises instead of returning
KeggGetGiveUp_Raises ==
    /\ http_pc = "loop"
    /\ attempt >= max_retries
    /\ http_pc' = "raised"
    /\ UNCHANGED <<retries_arg, max_retries, attempt, http_log, slept, http_result,
                   resolver_vars, ora_vars, gsea_vars, fetch_vars, thread_vars, app_vars>>

\* the loop is over: return ""
KeggGetGiveUp ==
    /\ http_pc = "loop"
    /\ attempt >= max_retries
    /\ http_result' = ""
    /\ http_pc' = "done"
    /\ UNCHANGED <<retries_arg, max_retries, attempt, http_log, slept,
                   resolver_vars, ora_vars, gsea_vars, fetch_vars, thread_vars, app_vars>>

InitKeggGet ==
    /\ retries_arg \in {{}} \cup {{n} : n \in 0..MaxRetriesArg}
    /\ max_retries = IF retries_arg = {} THEN DEFAULT_MAX_RETRIES
                     ELSE CHOOSE n \in retries_arg : TRUE
    /\ attempt = 0
    /\ http_log = <<>>
    /\ slept = 0
    /\ http_pc = "loop"
    /\ http_result = ""
    /\ ResolverIdle
    /\ OraIdle
    /\ GseaIdle
    /\ LaterIdle

NextKeggGet ==
    \/ KeggGetOk
    \/ KeggGetForbidden
    \/ KeggGetOtherStatus
    \/ KeggGetRequestException
    \/ KeggGetGiveUp

\* the function runs on until it returns: the interpreter takes the next step
\* of the loop, and requests.get comes back within its timeout
SpecKeggGet == InitKeggGet /\ [][NextKeggGet]_vars /\ WF_vars(NextKeggGet)

(***************************************************************************)
(* The cached fetchers: fetch_kegg_gene_list, fetch_kegg_pathways,         *)
(* fetch_kegg_gene_pathway_links and fetch_cog_from_kegg, each under       *)
(* @st.cache_data(ttl=3600).  A fetcher is named by the endpoint it asks.  *)
(* The three KEGG fetchers go through _kegg_get, whose steps are the       *)
(* actions above; fetch_cog_from_kegg makes its one request itself.  The   *)
(* clock moves between calls.                                              *)
(***************************************************************************)
\* fetcher calls per behaviour
MaxCalls == 2

\* ttl=3600, in hundredths of a second
CACHE_TTL == 360000

\* the clock moves in steps of three quarters of the time-to-live: after one
\* step an entry is still served, after two it is not
ElapseStep == (3 * CACHE_TTL) \div 4

\* and stops here
MaxClock == 2 * ElapseStep

\* list/{org_code}, list/pathway/{org_code}, link/pathway/{org_code}
KeggFetchers == {"list", "list/pathway", "link/pathway"}

\* https://rest.kegg.jp/link/cog/{org_code}
CogFetcher == "link/cog"

Fetchers == KeggFetchers \cup {CogFetcher}

OrgCodes == {"eco", "bsu"}

\* a cache that keeps one entry per fetcher, whatever the organism code
CacheKey_EndpointOnly(fetcher, org_code) == <<fetcher, "">>

\* st.cache_data keys an entry by the decorated function and its arguments
CacheKey(fetcher, org_code) == <<fetcher, org_code>>

\* an entry is served until ttl has passed since it was stored
Fresh(entry) == now - entry.stored_at < CACHE_TTL

\* the entries in the store, served or not
AllEntries == {cache[k] : k \in DOMAIN cache}

Cached(fetcher, org_code) ==
    /\ CacheKey(fetcher, org_code) \in DOMAIN cache
    /\ Fresh(cache[CacheKey(fetcher, org_code)])

\* the dict a fetcher builds from the lines of the response text: empty for
\* the empty text
ParseLines(text) == IF text = "" THEN EmptyDict ELSE [line \in {1} |-> text]

\* the entry st.cache_data stores when the function returns value
Entry(fetcher, org_code, value, failed) ==
    [fetcher |-> fetcher, org_code |-> org_code, value |-> value,
     stored_at |-> now, gave_up |-> failed]

\* what a finished call is remembered by: the entries stored when it was made,
\* the requests it issued, how it ended ("hit", "ok", or without an answer of
\* status 200: "forbidden", "status", "exception" for the one request of
\* fetch_cog_from_kegg, "gave_up" for _kegg_get) and the value it returned
Finished(fetcher, org_code, before, requests, ended, value) ==
    [fetcher |-> fetcher, org_code |-> org_code, at |-> now, before |-> before,
     requests |-> requests, ended |-> ended, value |-> value]

\* a call that st.cache_data answers from its store: the function body does not run
FetchCacheHit ==
    /\ fetch_pc = "idle"
    /\ calls < MaxCalls
    /\ \E f \in Fetchers, org \in OrgCodes :
          /\ Cached(f, org)
          /\ last_fetch' = Finished(f, org, AllEntries, 0, "hit",
                                    cache[CacheKey(f, org)].value)
    /\ calls' = calls + 1
    /\ UNCHANGED <<cache, now, fetch_pc, fetch_call,
                   resolver_vars, ora_vars, gsea_vars, http_vars, thread_vars, app_vars>>

\* a call of a KEGG fetcher with nothing stored: text = _kegg_get(endpoint)
FetchKeggMiss ==
    /\ fetch_pc = "idle"
    /\ calls < MaxCalls
    /\ \E f \in KeggFetchers, org \in OrgCodes :
          /\ ~Cached(f, org)
          /\ fetch_call' = [fetcher |-> f, org_code |-> org, before |-> AllEntries]
    /\ fetch_pc' = "computing"
    /\ retries_arg' = {}
    /\ max_retries' = DEFAULT_MAX_RETRIES
    /\ attempt' = 0
    /\ http_log' = <<>>
    /\ slept' = 0
    /\ http_pc' = "loop"
    /\ http_result' = ""
    /\ UNCHANGED <<cache, now, last_fetch, calls,
                   resolver_vars, ora_vars, gsea_vars, thread_vars, app_vars>>

\* no attempt of the _kegg_get call was answered with status 200
NoAttemptOk == \A i \in 1..Len(http_log) : http_log[i].status # 200

\* a fetcher that returns without leaving its value in the store
FetchKeggReturn_NotStored ==
    /\ fetch_pc = "computing"
    /\ http_pc = "done"
    /\ last_fetch' = Finished(fetch_call.fetcher, fetch_call.org_code, fetch_call.before,
                              Len(http_log), IF NoAttemptOk THEN "gave_up" ELSE "ok",
                              ParseLines(http_result))
    /\ calls' = calls + 1
    /\ fetch_pc' = "idle"
    /\ fetch_call' = <<>>
    /\ retries_arg' = {}
    /\ max_retries' = 0
    /\ attempt' = 0
    /\ http_log' = <<>>
    /\ slept' = 0
    /\ http_pc' = "idle"
    /\ http_result' = ""
    /\ UNCHANGED <<cache, now, resolver_vars, ora_vars, gsea_vars, thread_vars, app_vars>>

\* _kegg_get has returned: the loop over the lines builds the dict, the fetcher
\* returns it and st.cache_data stores it
FetchKeggReturn ==
    /\ fetch_pc = "computing"
    /\ http_pc = "done"
    /\ cache' = Put(cache, CacheKey(fetch_call.fetcher, fetch_call.org_code),
                    Entry(fetch_call.fetcher, fetch_call.org_code,
                          ParseLines(http_result), NoAttemptOk))
    /\ last_fetch' = Finished(fetch_call.fetcher, fetch_call.org_code, fetch_call.before,
                              Len(http_log), IF NoAttemptOk THEN "gave_up" ELSE "ok",
                              ParseLines(http_result))
    /\ calls' = calls + 1
    /\ fetch_pc' = "idle"
    /\ fetch_call' = <<>>
    /\ retries_arg' = {}
    /\ max_retries' = 0
    /\ attempt' = 0
    /\ http_log' = <<>>
    /\ slept' = 0
    /\ http_pc' = "idle"
    /\ http_result' = ""
    /\ UNCHANGED <<now, resolver_vars, ora_vars, gsea_vars, thread_vars, app_vars>>

\* fetch_cog_from_kegg, its request answered with status 200: the links are
\* built from resp.text
FetchCogOk ==
    /\ fetch_pc = "idle"
    /\ calls < MaxCalls
    /\ \E org \in OrgCodes, text \in ResponseTexts :
          /\ ~Cached(CogFetcher, org)
          /\ cache' = Put(cache, CacheKey(CogFetcher, org),
                          Entry(CogFetcher, org, ParseLines(text), FALSE))
          /\ last_fetch' = Finished(CogFetcher, org, AllEntries, 1, "ok", ParseLines(text))
    /\ calls' = calls + 1
    /\ UNCHANGED <<now, fetch_pc, fetch_call,
                   resolver_vars, ora_vars, gsea_vars, http_vars, thread_vars, app_vars>>

\* fetch_cog_from_kegg, its request answered with another status (403 among
\* them): if resp.status_code != 200: return {}
FetchCogNot200 ==
    /\ fetch_pc = "idle"
    /\ calls < MaxCalls
    /\ \E org \in OrgCodes, code \in {403} \cup OtherStatusCodes :
          /\ ~Cached(CogFetcher, org)
          /\ cache' = Put(cache, CacheKey(CogFetcher, org),
                          Entry(CogFetcher, org, EmptyDict, TRUE))
          /\ last_fetch' = Finished(CogFetcher, org, AllEntries, 1,
                                    IF code = 403 THEN "forbidden" ELSE "status", EmptyDict)
    /\ calls' = calls + 1
    /\ UNCHANGED <<now, fetch_pc, fetch_call,
                   resolver_vars, ora_vars, gsea_vars, http_vars, thread_vars, app_vars>>

\* fetch_cog_from_kegg, its request raising: except Exception: return {}
FetchCogException ==
    /\ fetch_pc = "idle"
    /\ calls < MaxCalls
    /\ \E org \in OrgCodes :
          /\ ~Cached(CogFetcher, org)
          /\ cache' = Put(cache, CacheKey(CogFetcher, org),
                          Entry(CogFetcher, org, EmptyDict, TRUE))
          /\ last_fetch' = Finished(CogFetcher, org, AllEntries, 1, "exception", EmptyDict)
    /\ calls' = calls + 1
    /\ UNCHANGED <<now, fetch_pc, fetch_call,
                   resolver_vars, ora_vars, gsea_vars, http_vars, thread_vars, app_vars>>

\* time passes between two calls
Elapse ==
    /\ fetch_pc = "idle"
    /\ cache # EmptyDict
    /\ calls < MaxCalls
    /\ now + ElapseStep <= MaxClock
    /\ now' = now + ElapseStep
    /\ UNCHANGED <<cache, fetch_pc, fetch_call, last_fetch, calls,
                   resolver_vars, ora_vars, gsea_vars, http_vars, thread_vars, app_vars>>

InitFetch ==
    /\ FetchIdle
    /\ ResolverIdle
    /\ OraIdle
    /\ GseaIdle
    /\ HttpIdle
    /\ ThreadsIdle
    /\ AppIdle

NextFetch ==
    \/ FetchCacheHit
    \/ FetchKeggMiss
    \/ KeggGetOk
    \/ KeggGetForbidden
    \/ KeggGetOtherStatus
    \/ KeggGetRequestException
    \/ KeggGetGiveUp
    \/ FetchKeggReturn
    \/ FetchCogOk
    \/ FetchCogNot200
    \/ FetchCogException
    \/ Elapse

SpecFetch == InitFetch /\ [][NextFetch]_vars

(***************************************************************************)
(* Concurrent sessions.  Streamlit runs the script of each session in a    *)
(* thread of its own; the delay before a request is a time.sleep in the    *)
(* calling thread, and nothing is shared between the threads but the       *)
(* remote source.  Each thread makes one fetch that st.cache_data does not *)
(* answer (the threads ask for different fetchers or organism codes):      *)
(* _kegg_get with its default max_retries, or the one request of           *)
(* fetch_cog_from_kegg.  Time is in hundredths of a second; a timer counts *)
(* down to the thread's next step.                                         *)
(***************************************************************************)
Threads == {1, 2}

\* the second session starts its run with the first, or 0.2 s later
StartOffsets == {0, 20}

\* the time requests.get takes to come back
RequestDurations == {10, 50}

ThreadKinds == {"kegg", "cog"}

Due(t, at) == threads[t].pc = at /\ threads[t].timer = 0

Goto(t, to, timer) == [threads EXCEPT ![t].pc = to, ![t].timer = timer]

ThreadFrame ==
    UNCHANGED <<resolver_vars, ora_vars, gsea_vars, http_vars, fetch_vars, app_vars>>

\* the script thread reaches the fetch: time.sleep(REQUEST_DELAY) / time.sleep(0.35)
ThreadCall ==
    /\ \E t \in Threads :
          /\ Due(t, "waiting")
          /\ threads' = Goto(t, "sleeping", REQUEST_DELAY)
    /\ UNCHANGED <<since_request, last_gap>>
    /\ ThreadFrame

\* the sleep is over: requests.get(url, timeout=60) goes out
ThreadRequest ==
    /\ \E t \in Threads, d \in RequestDurations :
          /\ Due(t, "sleeping")
          /\ threads' = Goto(t, "in_flight", d)
    /\ last_gap' = since_request
    /\ since_request' = {0}
    /\ ThreadFrame

\* status 200: the function returns
ThreadResponseOk ==
    /\ \E t \in Threads :
          /\ Due(t, "in_flight")
          /\ threads' = Goto(t, "done", 0)
    /\ UNCHANGED <<since_request, last_gap>>
    /\ ThreadFrame

\* the attempt counted, and the next step of _kegg_get after a wait of
\* `wait`: the next iteration, or return "" when the attempts are used up
AfterFailure(t, wait) ==
    IF wait > 0
    THEN [threads EXCEPT ![t].pc = "backoff", ![t].timer = wait,
                         ![t].attempt = threads[t].attempt + 1]
    ELSE IF threads[t].attempt + 1 < DEFAULT_MAX_RETRIES
    THEN [threads EXCEPT ![t].pc = "sleeping", ![t].timer = REQUEST_DELAY,
                         ![t].attempt = threads[t].attempt + 1]
    ELSE [threads EXCEPT ![t].pc = "done", ![t].timer = 0,
                         ![t].attempt = threads[t].attempt + 1]

\* status 403: _kegg_get sleeps 5 s; fetch_cog_from_kegg returns {}
ThreadResponseForbidden ==
    /\ \E t \in Threads :
          /\ Due(t, "in_flight")
          /\ threads' = IF threads[t].kind = "kegg" THEN AfterFailure(t, FORBIDDEN_DELAY)
                        ELSE Goto(t, "done", 0)
    /\ UNCHANGED <<since_request, last_gap>>
    /\ ThreadFrame

\* another status: _kegg_get goes on to its next iteration;
\* fetch_cog_from_kegg returns {}
ThreadResponseOther ==
    /\ \E t \in Threads :
          /\ Due(t, "in_flight")
          /\ threads' = IF threads[t].kind = "kegg" THEN AfterFailure(t, 0)
                        ELSE Goto(t, "done", 0)
    /\ UNCHANGED <<since_request, last_gap>>
    /\ ThreadFrame

\* requests.get raises: _kegg_get sleeps 2 s; fetch_cog_from_kegg returns {}
ThreadException ==
    /\ \E t \in Threads :
          /\ Due(t, "in_flight")
          /\ threads' = IF threads[t].kind = "kegg" THEN AfterFailure(t, EXCEPTION_DELAY)
                        ELSE Goto(t, "done", 0)
    /\ UNCHANGED <<since_request, last_gap>>
    /\ ThreadFrame

\* the sleep after a 403 or an exception is over: the next iteration of the
\* loop, or return "" when the attempts are used up
ThreadBackoffOver ==
    /\ \E t \in Threads :
          /\ Due(t, "backoff")
          /\ threads' = IF threads[t].attempt < DEFAULT_MAX_RETRIES
                        THEN Goto(t, "sleeping", REQUEST_DELAY)
                        ELSE Goto(t, "done", 0)
    /\ UNCHANGED <<since_request, last_gap>>
    /\ ThreadFrame

\* the threads that wait for a timer
Timed == {t \in Threads : threads[t].pc # "done"}

\* time passes up to the next timer that runs out; the time since the latest
\* request is followed up to REQUEST_DELAY
Tick ==
    /\ Timed # {}
    /\ \A t \in Timed : threads[t].timer > 0
    /\ LET step == CHOOSE d \in {threads[t].timer : t \in Timed} :
                       \A t \in Timed : d <= threads[t].timer
       IN  /\ threads' = [t \in Threads |->
                             IF t \in Timed
                             THEN [threads[t] EXCEPT !.timer = threads[t].timer - step]
                             ELSE threads[t]]
           /\ since_request' = {IF x + step < REQUEST_DELAY THEN x + step ELSE REQUEST_DELAY :
                                   x \in since_request}
    /\ UNCHANGED last_gap
    /\ ThreadFrame

InitConcurrent ==
    /\ \E kinds \in [Threads -> ThreadKinds], offset \in StartOffsets :
          threads = [t \in Threads |->
                        [kind |-> kinds[t], pc |-> "waiting",
                         timer |-> IF t = 1 THEN 0 ELSE offset, attempt |-> 0]]
    /\ since_request = {}
    /\ last_gap = {}
    /\ ResolverIdle
    /\ OraIdle
    /\ GseaIdle
    /\ HttpIdle
    /\ FetchIdle
    /\ AppIdle

NextConcurrent ==
    \/ ThreadCall
    \/ ThreadRequest
    \/ ThreadResponseOk
    \/ ThreadResponseForbidden
    \/ ThreadResponseOther
    \/ ThreadException
    \/ ThreadBackoffOver
    \/ Tick

SpecConcurrent == InitConcurrent /\ [][NextConcurrent]_vars

-----------------------------------------------------------------------------
\* The analysis run of app.py: the session_state slots (lines 460-479) and
\* the "Run Full Analysis" block (lines 485-594).  A slot holds the number
\* of the run whose assignment wrote its value, 0 for the value the
\* initialisation put there; analysis_done holds its boolean.

MaxRuns == 2

\* the slots the KEGG try block assigns, in the order of lines 522-547
KeggSlots == <<"id_mapping", "kegg_ora_up", "kegg_ora_down", "kegg_ora_all",
               "kegg_gsea_results">>

\* the slots the COG try block assigns, in the order of lines 571-581
CogSlots == <<"cog_mapping", "cog_enrich_up", "cog_enrich_down", "cog_enrich_all">>

KeggKeys == {KeggSlots[i] : i \in 1..Len(KeggSlots)}

CogKeys == {CogSlots[i] : i \in 1..Len(CogSlots)}

\* lines 460-479: every slot gets its empty value, analysis_done False
InitialSessionState ==
    [k \in KeggKeys \cup CogKeys \cup {"analysis_done"} |->
        IF k = "analysis_done" THEN FALSE ELSE 0]

\* the statements of the KEGG try block that end in an assignment or in the
\* three fetches, in program order
KeggSteps == <<"fetch", "map", "ora_up", "ora_down", "ora_all", "gsea">>

\* the slot a step assigns when it returns
SlotOf(step) ==
    CASE step = "map" -> "id_mapping"
      [] step = "ora_up" -> "kegg_ora_up"
      [] step = "ora_down" -> "kegg_ora_down"
      [] step = "ora_all" -> "kegg_ora_all"
      [] step = "gsea" -> "kegg_gsea_results"

\* what follows a step of the KEGG try block
AfterStep(step) ==
    CASE step = "fetch" -> "map"
      [] step = "map" -> "ora_up"
      [] step = "ora_up" -> "ora_down"
      [] step = "ora_down" -> "ora_all"
      [] step = "ora_all" -> "gsea"
      [] step = "gsea" -> "cog"

InKeggBlock == app_pc \in {KeggSteps[i] : i \in 1..Len(KeggSteps)}

AppFrame == UNCHANGED <<resolver_vars, ora_vars, gsea_vars, http_vars, fetch_vars,
                        thread_vars>>

\* st.session_state.<slot> = <value computed by this run>
Assign(state, slot) == [state EXCEPT ![slot] = run_no]

\* line 485: the button was pressed and data is loaded
RunStart ==
    /\ app_pc = "idle"
    /\ run_no < MaxRuns
    /\ run_no' = run_no + 1
    /\ app_pc' = "fetch"
    /\ kegg_error' = FALSE
    /\ UNCHANGED session_state
    /\ AppFrame

\* lines 496-503: the three fetches return; nothing is stored
FetchKeggData ==
    /\ app_pc = "fetch"
    /\ app_pc' = AfterStep("fetch")
    /\ UNCHANGED <<session_state, run_no, kegg_error>>
    /\ AppFrame

\* lines 507-522: st.session_state.id_mapping = id_mapping
MapGeneIds ==
    /\ app_pc = "map"
    /\ session_state' = Assign(session_state, SlotOf("map"))
    /\ app_pc' = AfterStep("map")
    /\ UNCHANGED <<run_no, kegg_error>>
    /\ AppFrame

\* lines 527-530
OraUp ==
    /\ app_pc = "ora_up"
    /\ session_state' = Assign(session_state, SlotOf("ora_up"))
    /\ app_pc' = AfterStep("ora_up")
    /\ UNCHANGED <<run_no, kegg_error>>
    /\ AppFrame

\* lines 533-536
OraDown ==
    /\ app_pc = "ora_down"
    /\ session_state' = Assign(session_state, SlotOf("ora_down"))
    /\ app_pc' = AfterStep("ora_down")
    /\ UNCHANGED <<run_no, kegg_error>>
    /\ AppFrame

\* lines 539-542
OraAll ==
    /\ app_pc = "ora_all"
    /\ session_state' = Assign(session_state, SlotOf("ora_all"))
    /\ app_pc' = AfterStep("ora_all")
    /\ UNCHANGED <<run_no, kegg_error>>
    /\ AppFrame

\* lines 546-551
Gsea ==
    /\ app_pc = "gsea"
    /\ session_state' = Assign(session_state, SlotOf("gsea"))
    /\ app_pc' = AfterStep("gsea")
    /\ UNCHANGED <<run_no, kegg_error>>
    /\ AppFrame

\* lines 554-556: the statement at app_pc raises an Exception; its
\* assignment does not happen, the earlier ones stay, st.error reports it
\* and the script goes on with the COG block
KeggStepRaises ==
    /\ InKeggBlock
    /\ kegg_error' = TRUE
    /\ app_pc' = "cog"
    /\ UNCHANGED <<session_state, run_no>>
    /\ AppFrame

\* the first n slots of the COG block are assigned by this run
CogAssigned(state, n) ==
    [k \in DOMAIN state |->
        IF \E i \in 1..n : CogSlots[i] = k THEN run_no ELSE state[k]]

\* lines 559-584: the COG block runs to its end
CogAnalysis ==
    /\ app_pc = "cog"
    /\ session_state' = CogAssigned(session_state, Len(CogSlots))
    /\ app_pc' = "finish"
    /\ UNCHANGED <<run_no, kegg_error>>
    /\ AppFrame

\* lines 586-587: a statement of the COG block raises after n assignments
CogAnalysisRaises ==
    /\ app_pc = "cog"
    /\ \E n \in 0..(Len(CogSlots) - 1) :
          session_state' = CogAssigned(session_state, n)
    /\ app_pc' = "finish"
    /\ UNCHANGED <<run_no, kegg_error>>
    /\ AppFrame

\* line 589: st.session_state.analysis_done = True, whatever happened above
MarkDone ==
    /\ app_pc = "finish"
    /\ session_state' = [session_state EXCEPT !["analysis_done"] = TRUE]
    /\ app_pc' = "idle"
    /\ UNCHANGED <<run_no, kegg_error>>
    /\ AppFrame

\* the user touches a widget while the run is under way: the next
\* progress.progress(...) call (lines 494-584) ends the script run with
\* streamlit's rerun signal, which is not an Exception; the script starts
\* again from the top with the button unpressed
Abandon ==
    /\ app_pc \notin {"idle", "finish"}
    /\ app_pc' = "idle"
    /\ UNCHANGED <<session_state, run_no, kegg_error>>
    /\ AppFrame

InitApp ==
    /\ session_state = InitialSessionState
    /\ app_pc = "idle"
    /\ run_no = 0
    /\ kegg_error = FALSE
    /\ ResolverIdle
    /\ OraIdle
    /\ GseaIdle
    /\ HttpIdle
    /\ FetchIdle
    /\ ThreadsIdle

NextApp ==
    \/ RunStart
    \/ FetchKeggData
    \/ MapGeneIds
    \/ OraUp
    \/ OraDown
    \/ OraAll
    \/ Gsea
    \/ KeggStepRaises
    \/ CogAnalysis
    \/ CogAnalysisRaises
    \/ MarkDone
    \/ Abandon

SpecApp == InitApp /\ [][NextApp]_vars

(***************************************************************************)
(* What the resolver's claims speak of, stated over the inputs alone: the  *)
(* reference entries that are valid candidates for an input id under each  *)
(* strategy.  Entries are named by their position in the reference list.   *)
(***************************************************************************)
RefPositions == 1..Len(kegg_genes)

\* the input ids the loop resolves, as it keys them (the id stripped)
InputKeys ==
    {Strip(input_gene_ids[i]) : i \in {j \in 1..Len(input_gene_ids) : input_gene_ids[j] # NoneVal}}

HasSymbol(i) == Find(kegg_genes[i].desc, ";") # 0

\* the symbol component: the text before the first semicolon, trimmed, lower-cased
SymbolOf(i) ==
    LET desc == kegg_genes[i].desc
    IN  Lower(Strip(SubSeq(desc, 1, Find(desc, ";") - 1)))

\* the product component: the text after the first semicolon, or all of it
ProductOf(i) ==
    LET desc == kegg_genes[i].desc
    IN  IF HasSymbol(i)
        THEN Lower(Strip(SubSeq(desc, Find(desc, ";") + 1, Len(desc))))
        ELSE Lower(Strip(desc))

IsInfix(sub, s) ==
    \E a \in 1..(Len(s) - Len(sub) + 1) : \A j \in 1..Len(sub) : s[a + j - 1] = sub[j]

Candidates(n, g) ==
    CASE n = 1 -> {i \in RefPositions : kegg_genes[i].id = g}
      [] n = 2 -> {i \in RefPositions : Lower(kegg_genes[i].id) = Lower(g)}
      [] n = 3 -> IF g \in DOMAIN gene_name_map /\ gene_name_map[g] # <<>>
                  THEN {i \in RefPositions :
                            HasSymbol(i) /\ SymbolOf(i) = Lower(gene_name_map[g])}
                  ELSE {}
      [] n = 4 -> {i \in RefPositions : HasSymbol(i) /\ SymbolOf(i) = Lower(g)}
      [] n = 5 -> IF g \in DOMAIN product_map
                  THEN LET p == Lower(Strip(product_map[g]))
                       IN  IF Len(p) > 10
                           THEN {i \in RefPositions :
                                    LET q == ProductOf(i)
                                    IN  /\ Len(q) > 5
                                        /\ \/ p = q
                                           \/ Len(p) > 15 /\ IsInfix(p, q)}
                           ELSE {}
                  ELSE {}

\* the lowest-numbered strategy that matches g, 0 when none does
Lowest(g) ==
    IF Candidates(1, g) # {} THEN 1
    ELSE IF Candidates(2, g) # {} THEN 2
    ELSE IF Candidates(3, g) # {} THEN 3
    ELSE IF Candidates(4, g) # {} THEN 4
    ELSE IF Candidates(5, g) # {} THEN 5
    ELSE 0

IdsAt(S) == {kegg_genes[i].id : i \in S}

FirstOf(S) == CHOOSE i \in S : \A j \in S : i <= j

LastOf(S) == CHOOSE i \in S : \A j \in S : j <= i

Returned == pc = "done"

C2_CaseInsensitiveMatch ==
    Returned =>
        /\ \A g \in InputKeys :
              (Candidates(1, g) = {} /\ Candidates(2, g) # {}) =>
                  /\ g \in DOMAIN mapping
                  /\ Lower(mapping[g]) = Lower(g)
                  /\ mapping[g] \in IdsAt(RefPositions)
        /\ (id_ab \in InputKeys /\ IdsAt(Candidates(2, id_ab)) = {id_AB}) =>
              id_ab \in DOMAIN mapping /\ mapping[id_ab] = id_AB

\* scenario C, with a later strategy that would name another reference entry
C2_Witness ==
    /\ Returned
    /\ id_ab \in InputKeys
    /\ IdsAt(Candidates(2, id_ab)) = {id_AB}
    /\ \E i \in Candidates(4, id_ab) : kegg_genes[i].id # id_AB
    /\ mapping[id_ab] = id_AB

\* C3: every value of the mapping, at every point of the call, is a key of the
\* reference gene list.
C3_ValuesAreReferenceIds ==
    \A g \in DOMAIN mapping : mapping[g] \in IdsAt(RefPositions)

\* a returned mapping with an entry that is not the identity
C3_Witness ==
    /\ Returned
    /\ \E g \in DOMAIN mapping : mapping[g] # g /\ Lower(mapping[g]) # Lower(g)

C5_FirstCandidateTaken ==
    Returned =>
        \A g \in InputKeys :
            LET n == Lowest(g)
            IN  n \in {3, 4, 5} => mapping[g] = kegg_genes[FirstOf(Candidates(n, g))].id

\* C5 amended: under strategy 3 or 4 the candidate that comes last in the
\* reference list is taken; under strategy 5 the first candidate in the
\* reference list decides the product text, and the last reference entry with
\* that same product text is taken.
C5_LastSymbolFirstProductText ==
    Returned =>
        \A g \in InputKeys :
            LET n == Lowest(g)
            IN  /\ n \in {3, 4} => mapping[g] = kegg_genes[LastOf(Candidates(n, g))].id
                /\ n = 5 =>
                      LET first == FirstOf(Candidates(5, g))
                          same == {i \in RefPositions : ProductOf(i) = ProductOf(first)}
                      IN  mapping[g] = kegg_genes[LastOf(same)].id

\* two candidates under a symbol strategy, and two product texts of which the
\* first-listed is carried by two entries
C5_Witness ==
    /\ Returned
    /\ \E g \in InputKeys :
          /\ Lowest(g) \in {3, 4}
          /\ Cardinality(Candidates(Lowest(g), g)) >= 2
    /\ \E g \in InputKeys :
          /\ Lowest(g) = 5
          /\ Cardinality(Candidates(5, g)) >= 2
          /\ mapping[g] # kegg_genes[FirstOf(Candidates(5, g))].id

OraReturned == ora_call \in {"kegg", "cog"}

Records == {ora_result[i] : i \in 1..Len(ora_result)}

IsCog(r) == "COG_Category" \in DOMAIN r

CategoryOf(r) == IF IsCog(r) THEN r.COG_Category ELSE r.Pathway_ID

Reported_k(r) == IF IsCog(r) THEN r.DE_Count ELSE r.Count

Reported_n(r) == IF IsCog(r) THEN r.DE_Total ELSE r.GeneRatio[2]

Reported_K(r) == IF IsCog(r) THEN r.Background_Count ELSE r.BgRatio[1]

Reported_N(r) == IF IsCog(r) THEN r.Background_Total ELSE r.BgRatio[2]

\* gene g belongs to category c
Belongs(g, c) ==
    g \in DOMAIN membership /\ \E i \in 1..Len(membership[g]) : membership[g][i] = c

\* the genes of S that belong to c
MembersIn(S, c) == {g \in S : Belongs(g, c)}

\* the times the membership lists of the genes of S name c
Namings(S, c) ==
    Cardinality({<<g, i>> \in (S \cap DOMAIN membership) \X (1..2) :
                     i <= Len(membership[g]) /\ membership[g][i] = c})

\* the background size the engine holds against the size limits
SizeK(c) ==
    IF ora_call = "cog" THEN Namings(ora_bg, c) ELSE Cardinality(MembersIn(ora_bg, c))

\* the foreground overlap the engine puts in the table
Overlap(c) ==
    IF ora_call = "cog" THEN Namings(ora_fg, c)
    ELSE Cardinality(MembersIn(ora_bg, c) \cap ora_fg)

HasRecord(c) == \E r \in Records : CategoryOf(r) = c

AllCodes == {"J", "K", "p1"}

CogLetters == {COG_CATEGORIES[i] : i \in 1..Len(COG_CATEGORIES)}

\* the ids an id_mapping translates S to, the genes without an entry left out
Translated(S) == {id_mapping[g] : g \in S \cap DOMAIN id_mapping}

\* C7: a gene without an entry in the identifier mapping passed to run_kegg_ora
\* is in neither the foreground nor the background set, also when the mapping
\* has no entries at all
C7_UnmappedTakeNoPart ==
    (ora_call = "kegg" /\ id_mapping # NoneVal) =>
        /\ ora_fg = Translated(de_gene_ids)
        /\ ora_bg = Translated(all_gene_ids)

\* C8: every record reports k, K as the numbers of distinct foreground and
\* background genes that belong to its category, and n, N as the numbers of
\* distinct foreground and background genes
C8_CountsAreDistinctGenes ==
    OraReturned =>
        \A r \in Records :
            /\ Reported_k(r) = Cardinality(MembersIn(ora_fg, CategoryOf(r)))
            /\ Reported_K(r) = Cardinality(MembersIn(ora_bg, CategoryOf(r)))
            /\ Reported_n(r) = Cardinality(ora_fg)
            /\ Reported_N(r) = Cardinality(ora_bg)

SmallCounts == 0..3

C11_InfiniteOddsSentinel ==
    OraReturned =>
        \A r \in Records :
            /\ r.OddsRatio.kind # "inf"
            /\ (/\ Reported_n(r) - Reported_k(r) = 0 \/ Reported_K(r) - Reported_k(r) = 0
                /\ r.OddsRatio.kind # "nan") =>
                  r.OddsRatio = [kind |-> "num", units |-> ODDS_SENTINEL]

\* C12: each record's corrected q-value (p.adjust) is at least its raw p-value
C12_AdjustedAtLeastRaw ==
    OraReturned => \A r \in Records : RatLeq(r.pvalue, r.p_adjust)

\* a result of two or more records in which a q-value is above its p-value
C12_Witness ==
    /\ OraReturned
    /\ Len(ora_result) >= 2
    /\ \E r \in Records : ~RatLeq(r.p_adjust, r.pvalue)

\* C13: the records are in ascending order of raw p-value: of two consecutive
\* records the first has a p-value less than or equal to the second
C13_AscendingPvalue ==
    OraReturned =>
        \A i \in 1..(Len(ora_result) - 1) :
            RatLeq(ora_result[i].pvalue, ora_result[i + 1].pvalue)

\* a result with two consecutive records of different p-values
C13_Witness ==
    /\ OraReturned
    /\ \E i \in 1..(Len(ora_result) - 1) :
          ~RatLeq(ora_result[i + 1].pvalue, ora_result[i].pvalue)

\* C14: a call with an empty foreground (n = 0) or with an empty category
\* membership returns an empty result
C14_DegenerateInputEmpty ==
    (OraReturned /\ (ora_fg = {} \/ membership = EmptyDict)) => ora_result = <<>>

\* every order in which the entries of a dict with key set S can be iterated
Orders(S) ==
    {o \in [1..Cardinality(S) -> S] : \A i, j \in 1..Cardinality(S) : i # j => o[i] # o[j]}

\* C15: the index run_kegg_ora builds has gene g under category c exactly when
\* g is in the (mapped) background universe and c is in g's membership list,
\* and building it again from the same membership and universe, in whatever
\* order the links are iterated, gives the same set of genes per category
C15_CategoryIndex ==
    ora_call = "kegg" =>
        /\ \A c \in AllCodes : \A g \in OraGenes :
              (c \in DOMAIN pathway_gene_sets /\ g \in pathway_gene_sets[c])
                  <=> (g \in ora_bg /\ Belongs(g, c))
        /\ DOMAIN pathway_gene_sets \subseteq AllCodes
        /\ \A c \in DOMAIN pathway_gene_sets : pathway_gene_sets[c] \subseteq OraGenes
        /\ \A o \in Orders(DOMAIN membership) :
              PathwayIndex(membership, ora_bg, o) = pathway_gene_sets

\* an index built from two or more genes with memberships, one of them outside
\* the universe and one of them in a category set
C15_Witness ==
    /\ ora_call = "kegg"
    /\ Cardinality(DOMAIN membership) >= 2
    /\ \E g \in DOMAIN membership : g \notin ora_bg
    /\ \E c \in DOMAIN pathway_gene_sets : pathway_gene_sets[c] # {}

(***************************************************************************)
(* What the rank enrichment claims speak of.                               *)
(***************************************************************************)
GseaReturned == gsea_call # "none"

\* the id an input id is translated to by the id_mapping of the call
TranslatedId(g) ==
    IF id_mapping # NoneVal /\ g \in DOMAIN id_mapping THEN id_mapping[g] ELSE g

\* the entries of gene_ranking that are the first to translate to their id
FirstEntries ==
    {i \in 1..Len(gene_ranking) :
        \A j \in 1..(i - 1) :
            TranslatedId(gene_ranking[j].gene) # TranslatedId(gene_ranking[i].gene)}

\* C16: after translation the ranking handed on holds each gene id at most
\* once; of several entries that translate to one id the first in ranking
\* order is kept, and the kept entries stay in their relative order
C16_RankingDeduplicated ==
    GseaReturned =>
        LET firsts == FirstEntries
        IN  /\ Len(ranking_mapped) = Cardinality(firsts)
            /\ \A i \in firsts :
                  ranking_mapped[Cardinality({j \in firsts : j <= i})] =
                      [gene |-> TranslatedId(gene_ranking[i].gene),
                       score |-> gene_ranking[i].score]
            /\ \A a, b \in 1..Len(ranking_mapped) :
                  a # b => ranking_mapped[a].gene # ranking_mapped[b].gene

\* a call whose translation made entries collide: an entry was dropped, and
\* an entry behind the dropped one was kept
C16_Witness ==
    /\ gsea_call = "prerank"
    /\ Len(ranking_mapped) < Len(gene_ranking)
    /\ \E i \in 1..Len(gene_ranking) :
          /\ i \notin FirstEntries
          /\ \E j \in FirstEntries : j > i

\* the gene set of a pathway name, from the links and names of the call
FullGeneSet(name) ==
    {g \in DOMAIN membership :
        \E i \in 1..Len(membership[g]) :
            (IF membership[g][i] \in DOMAIN pathways THEN pathways[membership[g][i]]
             ELSE membership[g][i]) = name}

GseaNames == {"J", "K", "p1", "n1"}

\* the categories that pass the size filter of the call
Survivors ==
    {name \in GseaNames :
        /\ FullGeneSet(name) # {}
        /\ min_size <= Cardinality(FullGeneSet(name))
        /\ Cardinality(FullGeneSet(name)) <= max_size}

RankedGenes == {ranking_mapped[i].gene : i \in 1..Len(ranking_mapped)}

\* the categories the statistic tests: those with min_size to max_size genes ranked
Tested ==
    {name \in DOMAIN gsea_gene_sets :
        /\ min_size <= Cardinality(gsea_gene_sets[name] \cap RankedGenes)
        /\ Cardinality(gsea_gene_sets[name] \cap RankedGenes) <= max_size}

\* C18: a failure while computing one category does not abort the call: every
\* category the statistic tests has a record in the result
C18_CategoryFailureIsolated ==
    gsea_call \in {"prerank", "warning"} =>
        \A name \in Tested : \E r \in gsea_result : r.Term = name

\* the three top-ranked genes of the ranking handed to the statistic
TopThree == {ranking_mapped[i].gene : i \in 1..3}

\* the call is the scenario: 12 distinct genes ranked, one category, which
\* holds exactly the three top-ranked genes
IsScenarioB(name) ==
    /\ GseaReturned
    /\ Len(gene_ranking) = 12
    /\ Len(ranking_mapped) = 12
    /\ {n \in GseaNames : FullGeneSet(n) # {}} = {name}
    /\ FullGeneSet(name) = TopThree

\* the result has a record for the category with a positive enrichment score
\* and the three top-ranked genes as its leading edge
HasTopThreeRecord(name) ==
    \E r \in gsea_result :
        /\ r.Term = name
        /\ ~r.ES.nan
        /\ r.ES.num > 0 /\ r.ES.den > 0
        /\ r.ES.Lead_genes = TopThree

\* C19 as stated: for a ranking of 12 distinct genes and a single category that
\* holds exactly the 3 top-ranked genes, the call returns a record for the
\* category with a positive enrichment score and those 3 genes as leading edge
C19_TopThreeCategory ==
    \A name \in GseaNames : IsScenarioB(name) => HasTopThreeRecord(name)

\* C19: the same, for a call with min_size <= 3 <= max_size on a ranking whose
\* third-ranked gene has a score other than 0
C19_TopThreeCategoryWithinSize ==
    \A name \in GseaNames :
        (/\ IsScenarioB(name)
         /\ min_size <= 3 /\ 3 <= max_size
         /\ ranking_mapped[3].score # 0) =>
            (gsea_call = "prerank" /\ HasTopThreeRecord(name))

\* the scenario ran, with min_size <= 3 <= max_size and the three top scores
\* negative, and was answered with the record
C19_Witness ==
    \E name \in GseaNames :
        /\ IsScenarioB(name)
        /\ min_size <= 3 /\ 3 <= max_size
        /\ ranking_mapped[3].score < 0
        /\ HasTopThreeRecord(name)

(***************************************************************************)
(* What the claims about _kegg_get speak of.                               *)
(***************************************************************************)
\* the attempts answered with status 200
OkAttempts == {i \in 1..Len(http_log) : http_log[i].status = 200}

\* at most max_retries attempts are made, 3 when the argument is left out; a
\* call that has returned returned the text of the first 200, which was its
\* last attempt, or "" after max_retries failed attempts
KeggGetWithinRetries ==
    /\ attempt = Len(http_log)
    /\ attempt <= max_retries
    /\ retries_arg = {} => max_retries = 3
    /\ http_pc \in {"loop", "done"}
    /\ http_pc = "done" =>
          IF OkAttempts # {}
          THEN /\ OkAttempts = {Len(http_log)}
               /\ http_result = http_log[Len(http_log)].text
          ELSE /\ http_result = ""
               /\ attempt = max_retries

\* C20: _kegg_get terminates whatever the server answers and the network
\* does: it makes at most max_retries attempts (3 by default), returns the
\* response text on the first HTTP 200, and after the last failed attempt
\* returns the empty string instead of raising
C20_KeggGetTerminates ==
    /\ []KeggGetWithinRetries
    /\ <>(http_pc = "done")

\* a call with the default max_retries that met a 403, a network failure and
\* another failure, and returned the empty string after the third attempt
C20_Witness ==
    /\ http_pc = "done"
    /\ retries_arg = {}
    /\ attempt = 3
    /\ OkAttempts = {}
    /\ \E i, j \in 1..3 : http_log[i].status = 403 /\ http_log[j].status = 0
    /\ http_result = ""

(***************************************************************************)
(* Categories without foreground overlap, the family of the correction and *)
(* invalid tables (C24 - C26).                                             *)
(***************************************************************************)
\* the table of category c as the engine builds it has no negative cell
ValidTable(c) ==
    /\ Overlap(c) <= Cardinality(ora_fg)
    /\ Overlap(c) <= SizeK(c)

\* what both statements of C24 share: run_kegg_ora has no record for a category
\* with k = 0, and each of its records has Count >= 1
KeggSkipsZeroOverlap ==
    ora_call = "kegg" =>
        /\ \A c \in AllCodes : Overlap(c) = 0 => ~HasRecord(c)
        /\ \A r \in Records : r.Count >= 1

\* C24 as stated: run_kegg_ora has no record for a category with k = 0, and
\* run_cog_enrichment has a record for every category whose background count
\* is at least min_count
C24_CogRecordForEverySize ==
    /\ KeggSkipsZeroOverlap
    /\ ora_call = "cog" =>
          \A c \in CogLetters : SizeK(c) >= min_size => HasRecord(c)

\* C24, amended: run_kegg_ora has no record for a category with k = 0 and every
\* record it returns has Count >= 1; run_cog_enrichment has a record for every
\* category whose background count is at least min_count and whose table has
\* no negative cell, also when k = 0, and that record reports DE_Count = k
C24_ZeroOverlap ==
    /\ KeggSkipsZeroOverlap
    /\ ora_call = "cog" =>
          \A c \in CogLetters :
              (SizeK(c) >= min_size /\ ValidTable(c)) =>
                  \E r \in Records : CategoryOf(r) = c /\ r.DE_Count = Overlap(c)

\* run_cog_enrichment returned a record for a category no foreground gene
\* belongs to, next to a record of a category with foreground genes
C24_Witness ==
    /\ ora_call = "cog"
    /\ \E r \in Records : r.DE_Count = 0 /\ r.Background_Count >= min_size
    /\ \E r \in Records : r.DE_Count >= 1

\* equality of rationals with positive denominators
RatEq(p, q) == p[1] * q[2] = q[1] * p[2]

\* the positions of the returned records whose p-value is at most that of i
AtMost(i) == {j \in 1..Len(ora_result) : RatLeq(ora_result[j].pvalue, ora_result[i].pvalue)}

\* the Benjamini-Hochberg step-up value of the i-th returned record within the
\* family of the returned records: p * m / rank, m the number of records
StepUp(i) ==
    <<ora_result[i].pvalue[1] * Len(ora_result),
      ora_result[i].pvalue[2] * Cardinality(AtMost(i))>>

\* a category that is in the input and has no record (skipped for its size,
\* for k = 0 or for an invalid table)
Skipped(c) ==
    /\ \E g \in ora_bg \cup ora_fg : Belongs(g, c)
    /\ ~HasRecord(c)

\* C25: the q-value of every returned record is the Benjamini-Hochberg value
\* within the family of the returned records alone: with m the number of
\* returned records, it is at most 1 and at most p' * m / rank(p') for every
\* returned p' >= p, and it equals one of these; a skipped category adds
\* nothing to m or to a rank
C25_FamilyIsReturnedRecords ==
    OraReturned =>
        \A i \in 1..Len(ora_result) :
            LET q == ora_result[i].p_adjust
                above == {j \in 1..Len(ora_result) :
                             RatLeq(ora_result[i].pvalue, ora_result[j].pvalue)}
            IN  /\ RatLeq(q, <<1, 1>>)
                /\ \A j \in above : RatLeq(q, StepUp(j))
                /\ \/ RatEq(q, <<1, 1>>)
                   \/ \E j \in above : RatEq(q, StepUp(j))

\* run_kegg_ora returned two records while a third category of the input was
\* skipped, and a q-value would differ had the family counted three tests
C25_Witness ==
    /\ ora_call = "kegg"
    /\ Len(ora_result) = 2
    /\ \E c \in AllCodes : Skipped(c) /\ Overlap(c) = 0
    /\ \E i \in 1..2 : ~RatLeq(<<1, 1>>, ora_result[i].p_adjust)

\* C26: a category whose table has a negative cell is left out and nothing
\* else changes: the call returns (it does not raise), and every other category
\* that passes the size test (and, in run_kegg_ora, has k > 0) and has a valid
\* table is returned with its counts
C26_InvalidTableOmitsOneCategory ==
    /\ ora_call # "raised"
    /\ ora_call = "cog" =>
          \A c \in CogLetters :
              IF ValidTable(c)
              THEN SizeK(c) >= min_size =>
                      \E r \in Records : CategoryOf(r) = c /\ r.DE_Count = Overlap(c)
              ELSE ~HasRecord(c)
    /\ ora_call = "kegg" =>
          \A c \in AllCodes :
              IF ValidTable(c)
              THEN (SizeK(c) >= min_size /\ SizeK(c) <= max_size /\ Overlap(c) > 0) =>
                      \E r \in Records : CategoryOf(r) = c /\ r.Count = Overlap(c)
              ELSE ~HasRecord(c)

\* run_cog_enrichment met a category with k > n or k > K, large enough to be
\* tested, left it out and returned the record of another category
C26_Witness ==
    /\ ora_call = "cog"
    /\ \E c \in CogLetters : SizeK(c) >= min_size /\ ~ValidTable(c) /\ ~HasRecord(c)
    /\ \E c \in CogLetters : ValidTable(c) /\ HasRecord(c)

(***************************************************************************)
(* The thresholds of strategy 5 (C27).                                     *)
(***************************************************************************)
\* the product text of input id g, trimmed and lower-cased
InputProduct(g) == Lower(Strip(product_map[g]))

\* input id g has a product text of more than 10 characters that equals the
\* product text of a reference entry or, having more than 15 characters, is
\* contained in it, the reference text having more than 5 characters
ProductMatches(g) ==
    /\ g \in DOMAIN product_map
    /\ Len(InputProduct(g)) > 10
    /\ \E i \in RefPositions :
          /\ Len(ProductOf(i)) > 5
          /\ \/ InputProduct(g) = ProductOf(i)
             \/ Len(InputProduct(g)) > 15 /\ IsInfix(InputProduct(g), ProductOf(i))

\* C27: an input id that strategies 1 to 4 do not match is mapped exactly when
\* its product text, trimmed and lower-cased, is longer than 10 characters and
\* equals a reference product text or is longer than 15 characters and is
\* contained in one; the reference product text is the part after the first
\* semicolon, or the whole description, and one of 5 characters or fewer
\* matches nothing; the id is mapped to an entry with such a product text
C27_Strategy5Thresholds ==
    Returned =>
        \A g \in InputKeys :
            (\A n \in 1..4 : Candidates(n, g) = {}) =>
                /\ g \in DOMAIN mapping <=> ProductMatches(g)
                /\ g \in DOMAIN mapping =>
                      \E i \in RefPositions :
                          /\ mapping[g] = kegg_genes[i].id
                          /\ \/ InputProduct(g) = ProductOf(i)
                             \/ IsInfix(InputProduct(g), ProductOf(i))

\* one call left a 15-character text unmatched that a reference product text
\* contains, and matched a 16-character text by containment in a product text
\* that follows the first of two semicolons
C27_Witness ==
    /\ Returned
    /\ \E g \in InputKeys \ DOMAIN mapping :
          /\ Len(InputProduct(g)) = 15
          /\ \E i \in RefPositions : IsInfix(InputProduct(g), ProductOf(i))
    /\ \E g \in InputKeys \cap DOMAIN mapping :
          /\ Len(InputProduct(g)) = 16
          /\ \A i \in RefPositions : InputProduct(g) # ProductOf(i)
          /\ \E i \in RefPositions :
                /\ IsInfix(InputProduct(g), ProductOf(i))
                /\ Find(ProductOf(i), ";") # 0

(***************************************************************************)
(* The size filter of the rank enrichment (C28).                           *)
(***************************************************************************)
\* the members of a category that are present in the ranking handed on
PresentMembers(name) == FullGeneSet(name) \cap RankedGenes

\* C28: with a ranking long enough to be analysed, a category has a record in
\* the result exactly when the number of its members present in the ranking
\* lies in [min_size, max_size], whatever the size of its full gene set
C28_FilterOnPresentMembers ==
    (gsea_call = "prerank" \/ (gsea_call = "empty" /\ Len(ranking_mapped) >= 10)) =>
        \A name \in GseaNames :
            FullGeneSet(name) # {} =>
                ((\E r \in gsea_result : r.Term = name)
                    <=> (/\ min_size <= Cardinality(PresentMembers(name))
                         /\ Cardinality(PresentMembers(name)) <= max_size))

(***************************************************************************)
(* What the claims about the fetchers speak of.                            *)
(***************************************************************************)
HasFetched == calls > 0

\* the latest call ended without an answer of status 200, on a throttling
\* response or a network exception (or, in _kegg_get, with its attempts used up)
GaveUp == HasFetched /\ last_fetch.ended \in {"forbidden", "exception", "gave_up"}

\* the attempts of the _kegg_get call in progress that met a throttling
\* response (403) or a network exception
TransientFailures == {i \in 1..Len(http_log) : http_log[i].status \in {403, 0}}

\* C21: a fetch that gives up with an empty result has issued more than one
\* request, and a fetch in progress has slept a backoff delay (2 s at least),
\* beyond the delay before each request, for every transient failure it met
C21_EveryFetcherRetries ==
    /\ GaveUp => (last_fetch.requests > 1 /\ last_fetch.value = EmptyDict)
    /\ fetch_pc = "computing" =>
          slept >= attempt * REQUEST_DELAY + Cardinality(TransientFailures) * EXCEPTION_DELAY

\* the entries that were stored, when the latest call was made, for the same
\* fetcher and the same organism code
EntriesOfCall ==
    {e \in last_fetch.before :
        e.fetcher = last_fetch.fetcher /\ e.org_code = last_fetch.org_code}

\* the time entry e had been stored for when the latest call was made
AgeAtCall(e) == last_fetch.at - e.stored_at

\* C23: a call made while an entry of the same fetcher and organism code is
\* inside its time-to-live (3600 s) issues no request and returns that entry's
\* value; a call made with no such entry stored (another organism code,
\* another fetcher, a first call) or with the entry older than the
\* time-to-live issues a request
C23_CachedPerOrganismWithTtl ==
    HasFetched =>
        /\ \A e \in EntriesOfCall :
              AgeAtCall(e) < 360000 =>
                  (last_fetch.requests = 0 /\ last_fetch.value = e.value)
        /\ (\A e \in EntriesOfCall : AgeAtCall(e) > 360000) => last_fetch.requests >= 1

\* a second call of a fetcher for the same organism code, 45 minutes after
\* the first stored a non-empty value, was answered without a request
C23_Witness ==
    /\ HasFetched
    /\ last_fetch.requests = 0
    /\ \E e \in EntriesOfCall :
          /\ AgeAtCall(e) > 0
          /\ AgeAtCall(e) < 360000
          /\ e.value # EmptyDict
          /\ last_fetch.value = e.value

\* C30: a fetch that ends without an answer of status 200 leaves the empty
\* result in the store under its fetcher and organism code, and a later call
\* for that organism code inside the time-to-live returns the empty result
\* without a request
C30_GiveUpCachedLikeSuccess ==
    /\ (fetch_pc = "idle" /\ GaveUp) =>
          /\ last_fetch.value = EmptyDict
          /\ \E e \in AllEntries :
                /\ e.fetcher = last_fetch.fetcher
                /\ e.org_code = last_fetch.org_code
                /\ e.value = EmptyDict
                /\ e.stored_at = last_fetch.at
    /\ HasFetched =>
          \A e \in EntriesOfCall :
              (e.gave_up /\ AgeAtCall(e) < 360000) =>
                  (last_fetch.requests = 0 /\ last_fetch.value = EmptyDict)

\* a KEGG fetcher, called 45 minutes after _kegg_get gave up for the same
\* organism code, returned the stored empty result without a request
C30_Witness ==
    /\ HasFetched
    /\ last_fetch.fetcher \in KeggFetchers
    /\ last_fetch.requests = 0
    /\ last_fetch.value = EmptyDict
    /\ \E e \in EntriesOfCall : e.gave_up /\ AgeAtCall(e) > 0 /\ AgeAtCall(e) < 360000

(***************************************************************************)
(* Requests of concurrent sessions (C22).                                  *)
(***************************************************************************)
InFlight == {t \in Threads : threads[t].pc = "in_flight"}

\* C22: no two requests are in flight at the same time, and no request is
\* issued sooner than REQUEST_DELAY after the request before it
C22_RequestsSerialized ==
    threads # <<>> =>
        /\ Cardinality(InFlight) <= 1
        /\ \A gap \in last_gap : gap >= REQUEST_DELAY

-----------------------------------------------------------------------------
\* The stored KEGG results after a run.

\* the KEGG slots whose value the current run wrote
WrittenByThisRun == {k \in KeggKeys : session_state[k] = run_no}

\* the KEGG slots whose value an earlier run wrote
LeftByEarlierRun ==
    {k \in KeggKeys : session_state[k] > 0 /\ session_state[k] < run_no}

MixedKeggResults == WrittenByThisRun # {} /\ LeftByEarlierRun # {}

\* C29: when a run has ended, by a KEGG step that raised or by being
\* abandoned, the stored KEGG results (id mapping, the three ORA tables, the
\* GSEA table) are not a mixture of values this run wrote and values an
\* earlier run left, and analysis_done is not set over such a mixture.
C29_NoPartialKeggResults ==
    (app_pc = "idle" /\ run_no > 0) => ~MixedKeggResults

=============================================================================
